---------------------------- MODULE Spec2Model ----------------------------
(***************************************************************************)
(* A model of python-mobilealerts: the gateway session (gateway.py), the   *)
(* sensor frame header codec (sensor.py), the gateway configuration codec  *)
(* with its preserved-proxy encoding, finding and discovering gateways     *)
(* (gateway.py) and the proxy server (proxy.py).                           *)
(*                                                                         *)
(* Conventions.                                                            *)
(*  - octets are integers 0..255, byte strings are sequences of octets;    *)
(*  - an Optional value is the empty sequence (None) or a one-element      *)
(*    sequence;                                                            *)
(*  - a Python object is a record of its attributes (without the leading   *)
(*    underscore);                                                         *)
(*  - an operation is an operator from a "world" record (the session, the  *)
(*    handler call log, the packets sent, the clock, the raised error) to  *)
(*    the world after it; a raised exception is the field err, and the     *)
(*    attribute writes made before the raise stay made, as in Python;      *)
(*  - time.time() is a logical clock that every reading advances.          *)
(***************************************************************************)
EXTENDS Integers, Sequences, FiniteSets, TLC

VARIABLES
    gw,      \* the Gateway object (session)
    calls,   \* handler callbacks made so far, in order
    sent,    \* SET_CONFIG packets sent by the last operation
    device,  \* the configuration record held by the gateway device
    now,     \* the clock
    err,     \* exception raised by the last operation ("ok": none)
    op,      \* the last operation and its arguments
    att,     \* history: the session and the device as the last
             \* attach_to_proxy found them, while only updates, pings and
             \* one detach_from_proxy have followed it, else None
    px,      \* the Proxy object
    events,  \* what the last operation did on the network, in order
    tasks    \* the uploads being handled concurrently: where each one is

vars == <<gw, calls, sent, device, now, err, op, att, px, events, tasks>>

---------------------------------------------------------------------------
(* Bounds of the model.                                                    *)

\* readings of the clock after which time-stamping operations stop
MaxTime == 3

\* FIND attempts whose outcome the network decides
MaxAttempts == 2

\* datagrams that answer one DISCOVER broadcast
MaxReplies == 3


---------------------------------------------------------------------------
(* Octets and byte strings.                                                *)

None == <<>>
Some(x) == <<x>>

Min(a, b) == IF a < b THEN a ELSE b

\* n zero octets: bytes(n) / bytearray(n)
Zeros(n) == [i \in 1..n |-> 0]

\* n copies of octet c
Rep(c, n) == [i \in 1..n |-> c]

\* Python slice b[lo:hi] of a byte string (0-based, hi exclusive, clipped)
Slice(b, lo, hi) ==
    LET h == Min(hi, Len(b))
    IN  IF lo >= h THEN <<>> ELSE [i \in 1..(h - lo) |-> b[lo + i]]

\* Python b[i] (0-based)
At(b, i) == b[i + 1]

\* the sum of the first n octets of b
RECURSIVE SumTo(_, _)
SumTo(b, n) == IF n = 0 THEN 0 ELSE b[n] + SumTo(b, n - 1)

Sum(b) == SumTo(b, Len(b))

\* int.from_bytes(b, "big")
RECURSIVE FromBytes(_)
FromBytes(b) ==
    IF b = <<>> THEN 0 ELSE FromBytes(SubSeq(b, 1, Len(b) - 1)) * 256 + b[Len(b)]

\* n.to_bytes(2, "big")
ToBytes2(n) == <<(n \div 256) % 256, n % 256>>

\* (x & (1 << k)) != 0
Bit(x, k) == (x \div (2 ^ k)) % 2 = 1

\* a & b on naturals
RECURSIVE BitAnd(_, _)
BitAnd(a, b) ==
    IF a = 0 \/ b = 0 THEN 0
    ELSE (a % 2) * (b % 2) + 2 * BitAnd(a \div 2, b \div 2)

HexDigits == <<"0", "1", "2", "3", "4", "5", "6", "7",
               "8", "9", "A", "B", "C", "D", "E", "F">>

\* bytes.hex().upper(): two hexadecimal digits per octet
Hex(b) ==
    [i \in 1..(2 * Len(b)) |->
        LET o == b[(i + 1) \div 2]
        IN  HexDigits[(IF i % 2 = 1 THEN o \div 16 ELSE o % 16) + 1]]

HexVal(c) == CHOOSE v \in 0..15 : HexDigits[v + 1] = c

\* int(s, 16)
RECURSIVE IntHex(_)
IntHex(s) ==
    IF s = <<>> THEN 0 ELSE IntHex(SubSeq(s, 1, Len(s) - 1)) * 16 + HexVal(s[Len(s)])

---------------------------------------------------------------------------
(* sensor.py: measurements.                                                *)

\* a measurement value: k is "None", "num", "bool", "enum", "error" or
\* "list"; v the number (scaled to an integer), l the list
Val(k, v) == [k |-> k, v |-> v, l |-> <<>>]
NoVal == Val("None", 0)
ListVal(l) == [k |-> "list", v |-> 0, l |-> l]

\* MeasurementError
ERROR == Val("error", 1)
OVERFLOW == Val("error", 2)
NOT_CALCULATED == Val("error", 3)

\* Measurement.__init__
Measurement(type, prefix, index) ==
    [type |-> type, prefix |-> prefix, index |-> index,
     value |-> NoVal, prior |-> NoVal]

\* a decoder that takes bits 0..9 as a magnitude and bit 10 as its sign
_parse_temperature_magnitude(value, attr) ==
    LET result == FromBytes(value)
        low == result % 1024
    IN  IF attr /\ Bit(result, 12) THEN ERROR
        ELSE IF attr /\ Bit(result, 13) THEN OVERFLOW
        ELSE Val("num", IF Bit(result, 10) THEN 0 - low ELSE low)

\* _parse_temperature, in tenths of a degree
_parse_temperature(value, attr) ==
    LET result == FromBytes(value)
        low == result % 1024
    IN  IF attr /\ Bit(result, 12) THEN ERROR
        ELSE IF attr /\ Bit(result, 13) THEN OVERFLOW
        ELSE Val("num", IF Bit(result, 10) THEN low - 1024 ELSE low)

\* _parse_humidity, in percent
_parse_humidity(value, average) ==
    IF average /\ Bit(value, 7) THEN NOT_CALCULATED ELSE Val("num", value % 128)

\* _parse_air_preasure, in tenths of a hPa
_parse_air_preasure(value) == Val("num", FromBytes(value))

\* Measurement._set_temperature; prior is an Optional byte string
_set_temperature(m, value, prior, attr) ==
    [m EXCEPT !.value = _parse_temperature(value, attr),
              !.prior = IF prior = None THEN NoVal
                        ELSE _parse_temperature(prior[1], attr)]

\* Measurement._set_humidity; prior is an Optional octet
_set_humidity(m, value, prior, average) ==
    [m EXCEPT !.value = _parse_humidity(value, average),
              !.prior = IF prior = None THEN NoVal
                        ELSE _parse_humidity(prior[1], average)]

\* Measurement._set_air_preasure
_set_air_preasure(m, value, prior) ==
    [m EXCEPT !.value = _parse_air_preasure(value),
              !.prior = IF prior = None THEN NoVal
                        ELSE _parse_air_preasure(prior[1])]

\* Measurement._set_key_pressed: value & 0xF0 >> 4 is value & (0xF0 >> 4)
_set_key_pressed(m, value) == [m EXCEPT !.value = Val("enum", value % 16)]

\* Measurement._set_key_press_type
_set_key_press_type(m, value) == [m EXCEPT !.value = Val("enum", value % 16)]

\* _parse_humidity_hr, in tenths of a percent
_parse_humidity_hr(value) == Val("num", FromBytes(value) % 512)

\* _parse_rain_time_span, in seconds
_parse_rain_time_span(value) ==
    LET time_unit == (value \div 16384) % 4
        time_mult == IF time_unit = 1 THEN 60 * 60
                     ELSE IF time_unit = 2 THEN 60 ELSE 1
    IN  (value % 16384) * time_mult

\* _parse_wind_direction: (value & 0xF0000000) >> 28
_parse_wind_direction(value) == Val("enum", (value \div (2 ^ 28)) % 16)

\* _parse_wind_speed, in tenths of m/s: (value & 0xFF) & (0x100 or 0)
_parse_wind_speed(value, hibit, himask) ==
    Val("num", BitAnd(value % 256, IF BitAnd(hibit, himask) # 0 THEN 256 ELSE 0))

\* _parse_wind_time_span, in seconds
_parse_wind_time_span(value) == Val("num", (value % 256) * 2)

\* _parse_door_window_time_span, in seconds
_parse_door_window_time_span(value) ==
    LET time_unit == (value \div 8192) % 4
        time_mult == IF time_unit = 1 THEN 60 * 60
                     ELSE IF time_unit = 2 THEN 60 ELSE 1
    IN  (value % 8192) * time_mult

\* Measurement._add_prior_temperature
_add_prior_temperature(m, value) ==
    [m EXCEPT !.prior =
        ListVal((IF m.prior = NoVal THEN <<>> ELSE <<m.prior>>)
                \o <<_parse_temperature(value, TRUE)>>)]

\* Measurement._set_humidity_hr
_set_humidity_hr(m, value, prior1, prior2) ==
    [m EXCEPT !.value = _parse_humidity_hr(value),
              !.prior = ListVal(<<_parse_humidity_hr(prior1),
                                  _parse_humidity_hr(prior2)>>)]

\* Measurement._set_wetness
_set_wetness(m, value) ==
    [m EXCEPT !.value = Val("bool", IF Bit(value, 1) \/ ~Bit(value, 0) THEN 1 ELSE 0)]

\* Measurement._set_air_quality, in ppm
_set_air_quality(m, value) ==
    LET result == FromBytes(value)
    IN  [m EXCEPT !.value = IF Bit(result, 8) THEN OVERFLOW
                            ELSE Val("num", (result % 256) * 50)]

\* Measurement._set_rain, in quarters of a mm
_set_rain(m, value) == [m EXCEPT !.value = Val("num", FromBytes(value))]

\* the while loop of _set_rain_time_span / _set_door_window_time_span:
\* index starts at 4 and runs while index < len(values)
RECURSIVE TimeSpanPriors(_, _, _, _)
TimeSpanPriors(values, index, door, acc) ==
    IF index < Len(values)
    THEN LET raw == FromBytes(Slice(values, index - 2, index))
             value == IF door THEN _parse_door_window_time_span(raw)
                      ELSE _parse_rain_time_span(raw)
         IN  IF raw = 0 \/ value = 0 THEN acc
             ELSE TimeSpanPriors(values, index + 2, door,
                                 Append(acc, Val("num", value)))
    ELSE acc

\* Measurement._set_rain_time_span
_set_rain_time_span(m, values) ==
    LET priors == IF Len(values) > 2
                  THEN TimeSpanPriors(values, 4, FALSE, <<>>) ELSE <<>>
    IN  [m EXCEPT
          !.value = Val("num", _parse_rain_time_span(FromBytes(Slice(values, 0, 2)))),
          !.prior = IF priors = <<>> THEN NoVal ELSE ListVal(priors)]

\* Measurement._set_door_window_time_span
_set_door_window_time_span(m, values) ==
    LET priors == IF Len(values) > 2
                  THEN TimeSpanPriors(values, 4, TRUE, <<>>) ELSE <<>>
    IN  [m EXCEPT
          !.value = Val("num",
                        _parse_door_window_time_span(FromBytes(Slice(values, 0, 2)))),
          !.prior = IF priors = <<>> THEN NoVal ELSE ListVal(priors)]

\* Measurement._set_boolean: bitmask is 1 << bit
_set_boolean(m, value, bit) ==
    [m EXCEPT !.value = Val("bool", IF Bit(FromBytes(value), bit) THEN 1 ELSE 0)]

\* Measurement._add_wind_direction
_add_wind_direction(m, index, value) ==
    IF index = 0
    THEN [m EXCEPT !.value = _parse_wind_direction(value), !.prior = ListVal(<<>>)]
    ELSE [m EXCEPT !.prior = ListVal(Append(m.prior.l, _parse_wind_direction(value)))]

\* Measurement._add_wind_speed
_add_wind_speed(m, index, value, hibit, himask) ==
    IF index = 0
    THEN [m EXCEPT !.value = _parse_wind_speed(value, hibit, himask),
                   !.prior = ListVal(<<>>)]
    ELSE [m EXCEPT !.prior =
            ListVal(Append(m.prior.l, _parse_wind_speed(value, hibit, himask)))]

\* Measurement._add_wind_time_span
_add_wind_time_span(m, index, value) ==
    IF index = 0
    THEN [m EXCEPT !.value = _parse_wind_time_span(value), !.prior = ListVal(<<>>)]
    ELSE [m EXCEPT !.prior = ListVal(Append(m.prior.l, _parse_wind_time_span(value)))]

---------------------------------------------------------------------------
(* sensor.py: Sensor.                                                      *)

\* the slot list Sensor.__init__ appends for a type code
Slots(type_id) ==
    CASE type_id \in {1, 15} ->
           <<Measurement("TEMPERATURE", "", 0), Measurement("TEMPERATURE", "Cable", 0)>>
      [] type_id = 2 -> <<Measurement("TEMPERATURE", "", 0)>>
      [] type_id \in {3, 14} ->
           <<Measurement("TEMPERATURE", "", 0), Measurement("HUMIDITY", "", 0)>>
      [] type_id = 4 ->
           <<Measurement("TEMPERATURE", "", 0), Measurement("HUMIDITY", "", 0),
             Measurement("WETNESS", "", 0)>>
      [] type_id = 5 ->
           <<Measurement("TEMPERATURE", "", 0), Measurement("HUMIDITY", "", 0),
             Measurement("AIR_QUALITY", "", 0), Measurement("TEMPERATURE", "Outdoor", 0)>>
      [] type_id = 6 ->
           <<Measurement("TEMPERATURE", "", 0), Measurement("HUMIDITY", "", 0),
             Measurement("TEMPERATURE", "Pool", 0)>>
      [] type_id = 7 ->
           <<Measurement("TEMPERATURE", "", 0), Measurement("HUMIDITY", "", 0),
             Measurement("TEMPERATURE", "Outdoor", 0), Measurement("HUMIDITY", "Outdoor", 0)>>
      [] type_id = 8 ->
           <<Measurement("TEMPERATURE", "", 0), Measurement("RAIN", "", 0),
             Measurement("TIME_SPAN", "", 0)>>
      [] type_id = 9 ->
           <<Measurement("TEMPERATURE", "", 0), Measurement("HUMIDITY", "", 0),
             Measurement("TEMPERATURE", "External", 0)>>
      [] type_id = 10 ->
           <<Measurement("ALARM", "", 1), Measurement("ALARM", "", 2),
             Measurement("ALARM", "", 3), Measurement("ALARM", "", 4),
             Measurement("TEMPERATURE", "", 0)>>
      [] type_id = 11 ->
           <<Measurement("WIND_DIRECTION", "", 0), Measurement("WIND_SPEED", "", 0),
             Measurement("GUST", "", 0), Measurement("TIME_SPAN", "", 0)>>
      [] type_id = 16 ->
           <<Measurement("DOOR_WINDOW", "", 0), Measurement("TIME_SPAN", "", 0)>>
      [] type_id = 17 ->
           <<Measurement("TEMPERATURE", "", 0), Measurement("HUMIDITY", "", 0),
             Measurement("TEMPERATURE", "External", 1), Measurement("HUMIDITY", "External", 1),
             Measurement("TEMPERATURE", "External", 2), Measurement("HUMIDITY", "External", 2),
             Measurement("TEMPERATURE", "External", 3), Measurement("HUMIDITY", "External", 3)>>
      [] type_id = 18 ->
           <<Measurement("TEMPERATURE", "", 0), Measurement("HUMIDITY", "", 0),
             Measurement("HUMIDITY", "3h average", 0), Measurement("HUMIDITY", "24h average", 0),
             Measurement("HUMIDITY", "7d average", 0), Measurement("HUMIDITY", "30d average", 0)>>
      [] type_id = 21 ->
           <<Measurement("KEY_PRESSED", "", 0), Measurement("KEY_PRESS_TYPE", "", 0)>>
      [] type_id = 24 ->
           <<Measurement("TEMPERATURE", "", 0), Measurement("HUMIDITY", "", 0),
             Measurement("AIR_PRESSURE", "", 0)>>
      [] OTHER -> <<>>

\* Sensor.__init__(parent, sensor_id) at clock reading t
Sensor(sensor_id, t) ==
    LET type_id == IntHex(SubSeq(sensor_id, 1, 2))
    IN  [id |-> sensor_id,
         type_id |-> type_id,
         counter |-> -1,
         low_battery |-> FALSE,
         by_event |-> FALSE,
         timestamp |-> t,
         last_update |-> None,
         measurements |-> Slots(type_id),
         three_byte_counter |-> type_id \in {11, 24}]

\* a filter that lets through only frames with a greater counter
_parse_packet_header_newer(self, packet) ==
    LET raw == IF self.three_byte_counter
               THEN FromBytes(Slice(packet, 12, 15))
               ELSE FromBytes(Slice(packet, 12, 14))
        top == IF self.three_byte_counter THEN 23 ELSE 15
        counter == raw % (2 ^ (top - 1))
        result == counter > self.counter
    IN  [self |-> [self EXCEPT !.timestamp = FromBytes(Slice(packet, 1, 5)),
                               !.low_battery = Bit(raw, top),
                               !.by_event = Bit(raw, top - 1),
                               !.counter = IF result THEN counter ELSE @],
         result |-> result]

\* Sensor._parse_packet_header: the sensor after it and the returned flag
_parse_packet_header(self, packet) ==
    LET raw == IF self.three_byte_counter
               THEN FromBytes(Slice(packet, 12, 15))
               ELSE FromBytes(Slice(packet, 12, 14))
        top == IF self.three_byte_counter THEN 23 ELSE 15
        counter == raw % (2 ^ (top - 1))
        result == self.counter # counter
    IN  [self |-> [self EXCEPT !.timestamp = FromBytes(Slice(packet, 1, 5)),
                               !.low_battery = Bit(raw, top),
                               !.by_event = Bit(raw, top - 1),
                               !.counter = IF result THEN counter ELSE @],
         result |-> result]

\* the type dispatch of Sensor.parse_packet: the slot list after decoding
\* packet into the slots ms of a sensor of a known type
DecodeSlots(type_id, ms, packet) ==
    LET P(lo, hi) == Slice(packet, lo, hi)
        B(i) == At(packet, i)
        T(i, v, pr) == _set_temperature(ms[i], P(v, v + 2), Some(P(pr, pr + 2)), TRUE)
        H(i, v, pr) == _set_humidity(ms[i], B(v), Some(B(pr)), FALSE)
        HA(i, v, pr) == _set_humidity(ms[i], B(v), Some(B(pr)), TRUE)
    IN  CASE type_id \in {1, 15} -> <<T(1, 14, 18), T(2, 16, 20)>>
          [] type_id = 2 -> <<T(1, 14, 16)>>
          [] type_id = 3 -> <<T(1, 14, 18), H(2, 17, 21)>>
          [] type_id = 4 -> <<T(1, 14, 19), H(2, 17, 23), _set_wetness(ms[3], B(18))>>
          [] type_id = 5 ->
               <<T(1, 16, 24), H(2, 19, 27), _set_air_quality(ms[3], P(20, 22)),
                 T(4, 14, 22)>>
          [] type_id = 6 -> <<T(1, 14, 20), H(2, 19, 25), T(3, 16, 22)>>
          [] type_id = 7 -> <<T(1, 14, 22), H(2, 17, 25), T(3, 18, 26), H(4, 21, 29)>>
          [] type_id = 8 ->
               <<_set_temperature(ms[1], P(14, 16), None, FALSE),
                 _set_rain(ms[2], P(16, 18)),
                 _set_rain_time_span(ms[3], P(18, 28))>>
          [] type_id = 9 ->
               \* self[0] temperature, self[2] humidity, self[1] temperature
               <<T(1, 14, 20), T(2, 16, 22), H(3, 19, 25)>>
          [] type_id = 10 ->
               <<_set_boolean(ms[1], P(14, 16), 15), _set_boolean(ms[2], P(14, 16), 14),
                 _set_boolean(ms[3], P(14, 16), 13), _set_boolean(ms[4], P(14, 16), 12),
                 _set_temperature(ms[5], P(16, 18), None, FALSE)>>
          [] type_id = 11 ->
               LET RECURSIVE Wind(_, _)
                   \* for n in range(0, 5), pos = 15 + 4 * n
                   Wind(n, w) ==
                       IF n = 5 THEN w
                       ELSE LET pos == 15 + 4 * n
                            IN  Wind(n + 1,
                                  <<_add_wind_direction(w[1], n, B(pos + 3)),
                                    _add_wind_speed(w[2], n, B(pos + 2), B(pos + 3), 2),
                                    _add_wind_speed(w[3], n, B(pos + 1), B(pos + 3), 1),
                                    _add_wind_time_span(w[4], n, B(pos))>>)
               IN  Wind(0, ms)
          [] type_id = 14 ->
               \* the last two statements overwrite both slots with temperatures
               LET m0 == _add_prior_temperature(
                             _set_temperature(ms[1], P(14, 16), Some(P(19, 21)), TRUE),
                             P(24, 26))
                   m1 == _set_humidity_hr(ms[2], P(16, 18), P(21, 23), P(26, 28))
               IN  <<_set_temperature(m0, P(14, 16), Some(P(18, 20)), TRUE),
                     _set_temperature(m1, P(16, 18), Some(P(20, 22)), TRUE)>>
          [] type_id = 16 ->
               <<_set_boolean(ms[1], P(14, 16), 15),
                 _set_door_window_time_span(ms[2], P(14, 22))>>
          [] type_id = 17 ->
               <<T(1, 26, 42), H(2, 29, 45), T(3, 14, 30), H(4, 17, 33),
                 T(5, 18, 34), H(6, 21, 37), T(7, 22, 38), H(8, 25, 41)>>
          [] type_id = 18 ->
               <<T(1, 18, 25), H(2, 20, 27), HA(3, 14, 21), HA(4, 15, 22),
                 HA(5, 16, 23), HA(6, 17, 24)>>
          [] type_id = 21 ->
               <<_set_key_pressed(ms[1], B(14)), _set_key_press_type(ms[2], B(14))>>
          [] type_id = 24 ->
               <<T(1, 15, 20), H(2, 17, 22),
                 _set_air_preasure(ms[3], P(18, 20), Some(P(23, 25)))>>

KnownTypes == {1, 2, 3, 4, 5, 6, 7, 8, 9, 10, 11, 14, 15, 16, 17, 18, 21, 24}

\* Sensor.__str__: the header line, then one line per slot
__str__(self) ==
    <<[id |-> self.id,
       battery |-> IF self.low_battery THEN "low" ELSE "good",
       last |-> IF self.by_event THEN "event" ELSE "seen",
       timestamp |-> self.timestamp]>>
    \o [i \in 1..Len(self.measurements) |-> self.measurements[i]]

\* a parse that keeps the frame whatever the type
parse_packet_recording(self, packet) ==
    LET h == _parse_packet_header(self, packet)
    IN  IF ~h.result THEN h.self ELSE [h.self EXCEPT !.last_update = Some(packet)]

\* Sensor.parse_packet: the sensor after it
parse_packet(self, packet) ==
    LET h == _parse_packet_header(self, packet)
    IN  IF ~h.result THEN h.self
        ELSE IF h.self.type_id \notin KnownTypes THEN h.self
        ELSE [h.self EXCEPT
                !.measurements = DecodeSlots(h.self.type_id, h.self.measurements, packet),
                !.last_update = Some(packet)]

---------------------------------------------------------------------------
(* gateway.py: the Gateway object and its sensor registry.                 *)

\* a Python value whose class matters: a str (its octets) or an IPv4Address
\* (its 4 packed octets)
Str(s) == [t |-> "str", s |-> s]
IPv4Address(packed) == [t |-> "IPv4Address", s |-> packed]

\* the decimal digits of n
RECURSIVE Dec(_)
Dec(n) == IF n < 10 THEN <<48 + n>> ELSE Dec(n \div 10) \o <<48 + (n % 10)>>

\* str(IPv4Address): dotted decimal
FormatIPv4(packed) ==
    Dec(packed[1]) \o <<46>> \o Dec(packed[2]) \o <<46>> \o Dec(packed[3])
    \o <<46>> \o Dec(packed[4])

\* IPv4Address(str) of a well-formed dotted decimal string
RECURSIVE ParseDotted(_, _, _, _)
ParseDotted(s, i, cur, acc) ==
    IF i > Len(s) THEN Append(acc, cur)
    ELSE IF s[i] = 46 THEN ParseDotted(s, i + 1, 0, Append(acc, cur))
    ELSE ParseDotted(s, i + 1, cur * 10 + (s[i] - 48), acc)

IPv4FromStr(s) == IPv4Address(ParseDotted(s, 1, 0, <<>>))

\* Gateway.__init__
Gateway(gateway_id) ==
    [id |-> gateway_id,
     handler |-> "None",
     version |-> <<1, 50>>,
     last_seen |-> None,
     attached |-> FALSE,
     orig_use_proxy |-> None,
     orig_proxy |-> None,
     orig_proxy_port |-> None,
     dhcp_ip |-> None,
     use_dhcp |-> None,
     fixed_ip |-> None,
     fixed_netmask |-> None,
     fixed_gateway |-> None,
     name |-> None,
     server |-> None,
     use_proxy |-> None,
     proxy |-> None,
     proxy_port |-> None,
     fixed_dns |-> None,
     send_data_to_cloud |-> TRUE,
     sensors |-> <<>>,
     initialized |-> FALSE,
     is_online |-> FALSE]

\* the world an operation runs in
World ==
    [gw |-> gw, calls |-> calls, sent |-> <<>>, now |-> now, err |-> "ok",
     px |-> px, events |-> <<>>, cloud |-> "ok", who |-> "gw"]

Raise(w, e) == [w EXCEPT !.err = e]

\* the operation does e with x on the network or calls the handler's e
Event(w, e, x) == [w EXCEPT !.events = Append(@, [e |-> e, x |-> x])]

\* time.time(): the reading is w.now, the world after it is Tick(w)
Tick(w) == [w EXCEPT !.now = @ + 1]

\* the registry dict: sensors.get(sensor_id, None)
Registered(g, sensor_id) == sensor_id \in DOMAIN g.sensors

\* Gateway.add_sensor
add_sensor(g, sensor) ==
    [g EXCEPT !.sensors =
        [i \in DOMAIN g.sensors \cup {sensor.id} |->
            IF i = sensor.id THEN sensor ELSE g.sensors[i]]]

\* positional parameters of Sensor.__init__ after self
SensorInitParams == 2

\* positional arguments of the Sensor(self, sensor_id, name) call in create_sensor
CreateSensorArgs == 3

\* Gateway.create_sensor: the name lookup yields a name or None and never
\* raises; constructing the Sensor raises TypeError when the argument count
\* is not the one __init__ takes
create_sensor(w, sensor_id) ==
    IF CreateSensorArgs # SensorInitParams
    THEN Raise(w, "TypeError")
    ELSE [Tick(w) EXCEPT !.gw = add_sensor(w.gw, Sensor(sensor_id, w.now))]

\* a handler callback: awaited to completion inside the caller
Call(w, fn, sensor_id) ==
    Event([w EXCEPT !.calls = Append(@, [fn |-> fn, id |-> sensor_id])], fn, sensor_id)

\* a lookup that announces every sensor it returns
get_sensor_announcing(w, sensor_id) ==
    IF Registered(w.gw, sensor_id)
    THEN IF w.gw.handler # "None" THEN Call(w, "sensor_added", sensor_id) ELSE w
    ELSE create_sensor(w, sensor_id)
\* Gateway.get_sensor: the world after it; the sensor is w.gw.sensors[sensor_id]
get_sensor(w, sensor_id) ==
    IF Registered(w.gw, sensor_id) THEN w
    ELSE LET c == create_sensor(w, sensor_id)
         IN  IF c.err # "ok" THEN c
             ELSE IF c.gw.handler # "None" THEN Call(c, "sensor_added", sensor_id)
             ELSE c

\* a checksum masked with 0xFF
ChecksumWide(package) == Sum(package) % 256
\* the checksum handle_sensor_update computes: sum of the octets & 0x7F
Checksum(package) == Sum(package) % 128

\* Gateway.handle_sensor_update
handle_sensor_update(w, package, package_checksum) ==
    IF Checksum(package) = package_checksum
    THEN LET t == [Tick(w) EXCEPT !.gw.last_seen = Some(w.now)]
             sensor_id == Hex(Slice(package, 6, 12))
             g == get_sensor(t, sensor_id)
         IN  IF g.err # "ok" THEN g
             ELSE LET p == [g EXCEPT !.gw.sensors[sensor_id] = parse_packet(@, package)]
                  IN  IF p.gw.handler # "None"
                      THEN Call(p, "sensor_updated", sensor_id)
                      ELSE p
    ELSE w

\* Gateway.handle_sensors_update: an exception ends the loop
RECURSIVE handle_sensors_update(_, _, _)
handle_sensors_update(w, packages, pos) ==
    IF pos + 64 <= Len(packages) /\ w.err = "ok"
    THEN handle_sensors_update(
             handle_sensor_update(w, Slice(packages, pos, pos + 63), At(packages, pos + 63)),
             packages, pos + 64)
    ELSE w

\* Gateway.handle_bootup_update
handle_bootup_update(w, package) ==
    IF Len(package) = 15 /\ Slice(package, 5, 11) = w.gw.id
    THEN [Tick(w) EXCEPT
            !.gw.version = <<FromBytes(Slice(package, 11, 13)),
                             FromBytes(Slice(package, 13, 15))>>,
            !.gw.last_seen = Some(w.now)]
    ELSE w

\* Python truth of an Optional flag held as None, 0 or 1
Truthy(x) == x # None /\ x[1] # 0

\* Gateway.handle_update; remote_ip is None or Some(Str(..))
handle_update(w, code, packages, remote_ip) ==
    LET o == [w EXCEPT !.gw.is_online = TRUE]
        d == IF Truthy(o.gw.use_dhcp) /\ o.gw.dhcp_ip # remote_ip
             THEN [o EXCEPT !.gw.dhcp_ip = remote_ip]
             ELSE o
    IN  IF code = "00" THEN handle_bootup_update(d, packages)
        ELSE IF code = "C0" THEN handle_sensors_update(d, packages, 0)
        ELSE d

---------------------------------------------------------------------------
(* gateway.py: the configuration codec.  Strings are ASCII, so that        *)
(* encoding to and decoding from UTF-8 keep the octets.                    *)

\* SET_CONFIG command code
SET_CONFIG == 4

\* 'magic' octets marking the preserved original proxy settings
ORIG_PROXY_BYTE1 == 25
ORIG_PROXY_BYTE2 == 116

\* bytes.find(c, lo, hi): the first index in [lo, hi) holding c, or -1
Find(b, c, lo, hi) ==
    LET hits == {i \in lo..(Min(hi, Len(b)) - 1) : At(b, i) = c}
    IN  IF hits = {} THEN -1 ELSE CHOOSE i \in hits : \A j \in hits : i <= j

\* Python slice b[lo:hi] where hi may be negative (counted from the end)
PySlice(b, lo, hi) == Slice(b, lo, IF hi < 0 THEN Len(b) + hi ELSE hi)

\* Python b[i] where i may be negative
PyAt(b, i) == IF i < 0 THEN b[Len(b) + i + 1] ELSE b[i + 1]

\* Gateway.check_config
check_config(config) ==
    /\ config # None
    /\ Len(config[1]) >= 186
    /\ Len(config[1]) = FromBytes(Slice(config[1], 8, 10))

\* the value parse_config returns for a record (an Optional byte string)
parse_config_result(g, config) ==
    check_config(config) /\ g.id = Slice(config[1], 2, 8)

\* the part of a string field that parse_config adds to orig_data: what
\* follows the marker pair after the NUL at str_end_pos, up to field_end
OrigPart(config, str_end_pos, field_end) ==
    IF /\ PyAt(config, str_end_pos + 1) = ORIG_PROXY_BYTE1
       /\ PyAt(config, str_end_pos + 2) = ORIG_PROXY_BYTE2
    THEN Slice(config, str_end_pos + 3, field_end)
    ELSE <<>>

\* Gateway.parse_config
parse_config(w, config) ==
    IF ~parse_config_result(w.gw, config) THEN w
    ELSE
    LET c == config[1]
        name_end == Find(c, 0, 28, 49)
        server_end == Find(c, 0, 49, 114)
        proxy_end == Find(c, 0, 115, 180)
        orig_data == OrigPart(c, server_end, 114) \o OrigPart(c, proxy_end, 180)
        parsed ==
            [w.gw EXCEPT
               !.id = Slice(c, 2, 8),
               !.dhcp_ip = Some(IPv4Address(Slice(c, 11, 15))),
               !.use_dhcp = Some(IF At(c, 15) # 0 THEN 1 ELSE 0),
               !.fixed_ip = Some(IPv4Address(Slice(c, 16, 20))),
               !.fixed_netmask = Some(IPv4Address(Slice(c, 20, 24))),
               !.fixed_gateway = Some(IPv4Address(Slice(c, 24, 28))),
               !.name = Some(Str(PySlice(c, 28, name_end))),
               !.server = Some(Str(PySlice(c, 49, server_end))),
               !.use_proxy = Some(IF At(c, 114) # 0 THEN 1 ELSE 0),
               !.proxy = Some(Str(PySlice(c, 115, proxy_end))),
               !.proxy_port = Some(FromBytes(Slice(c, 180, 182))),
               !.fixed_dns = Some(IPv4Address(Slice(c, 182, 186)))]
        orig ==
            IF Len(orig_data) > 3
            THEN [parsed EXCEPT
                    !.orig_use_proxy = Some(At(orig_data, 0)),
                    !.orig_proxy_port = Some(FromBytes(Slice(orig_data, 1, 3))),
                    !.orig_proxy =
                        Some(Str(PySlice(orig_data, 3, Find(orig_data, 0, 3, Len(orig_data)))))]
            ELSE parsed
    IN  [Tick(w) EXCEPT !.gw = [orig EXCEPT !.last_seen = Some(w.now),
                                            !.initialized = TRUE]]

\* set_config's tail of a string field: n zero octets of which, while
\* preserved octets remain (pos < Len(orig_data)), octets 1 and 2 are the
\* markers and the following ones the next part of orig_data.  Writing a
\* marker into a tail shorter than 3 octets raises IndexError
FieldTail(n, orig_data, pos) ==
    IF pos < Len(orig_data)
    THEN IF n < 3
         THEN [err |-> "IndexError", bytes |-> <<>>, pos |-> pos]
         ELSE LET orig_part_size == Min(Len(orig_data) - pos, n - 3)
              IN  [err |-> "ok",
                   bytes |-> <<0, ORIG_PROXY_BYTE1, ORIG_PROXY_BYTE2>>
                             \o Slice(orig_data, pos, pos + orig_part_size)
                             \o Zeros(n - 3 - orig_part_size),
                   pos |-> pos + orig_part_size]
    ELSE [err |-> "ok", bytes |-> Zeros(n), pos |-> pos]

\* the orig_data buffer set_config builds from the captured triple
OrigData(g) ==
    IF g.orig_use_proxy # None
    THEN <<g.orig_use_proxy[1]>> \o ToBytes2(g.orig_proxy_port[1]) \o g.orig_proxy[1].s
    ELSE <<>>

\* bytes(str(x), "utf-8") of a str or an IPv4Address
StrBytes(x) == IF x.t = "str" THEN x.s ELSE FormatIPv4(x.s)

\* a check that lets every session through
_check_init_skipped(w) == w
\* Gateway._check_init
_check_init(w) == IF ~w.gw.initialized THEN Raise(w, "Exception") ELSE w

\* the exception set_config raises before the first field tail when a field
\* it reads holds a value of the wrong type, or "ok"
FieldError(g) ==
    IF g.orig_use_proxy # None /\ (g.orig_proxy = None \/ g.orig_proxy[1].t # "str")
    THEN "TypeError"
    ELSE IF g.orig_use_proxy # None /\ g.orig_proxy_port = None THEN "AttributeError"
    ELSE IF g.use_dhcp = None THEN "TypeError"
    ELSE IF None \in {g.fixed_ip, g.fixed_netmask, g.fixed_gateway} THEN "AttributeError"
    ELSE IF g.name = None \/ g.server = None THEN "TypeError"
    ELSE "ok"

\* Gateway.set_config: _check_init, the 181-octet packet, the send
set_config(w) ==
    LET g == w.gw
    IN
    IF _check_init(w).err # "ok" THEN _check_init(w)
    ELSE IF FieldError(g) # "ok" THEN Raise(w, FieldError(g))
    ELSE IF g.use_proxy = None THEN
        IF FieldTail(65 - Len(StrBytes(g.server[1])), OrigData(g), 0).err # "ok"
        THEN Raise(w, "IndexError") ELSE Raise(w, "TypeError")
    ELSE IF g.proxy = None \/ g.proxy_port = None \/ g.fixed_dns = None THEN
        Raise(w, "AttributeError")
    ELSE
    LET orig_data == OrigData(g)
        name == StrBytes(g.name[1])
        server == StrBytes(g.server[1])
        proxy == StrBytes(g.proxy[1])
        tail1 == FieldTail(65 - Len(server), orig_data, 0)
        tail2 == FieldTail(65 - Len(proxy), orig_data, tail1.pos)
        packet ==
            ToBytes2(SET_CONFIG) \o g.id \o ToBytes2(181)
            \o <<g.use_dhcp[1]>>
            \o g.fixed_ip[1].s \o g.fixed_netmask[1].s \o g.fixed_gateway[1].s
            \o name \o Zeros(21 - Len(name))
            \o server \o tail1.bytes
            \o <<g.use_proxy[1]>>
            \o proxy \o tail2.bytes
            \o ToBytes2(g.proxy_port[1])
            \o g.fixed_dns[1].s
    IN  IF tail1.err # "ok" THEN Raise(w, tail1.err)
        ELSE IF tail2.err # "ok" THEN Raise(w, tail2.err)
        ELSE [w EXCEPT !.sent = Append(@, packet)]

\* Gateway.reset_config: the property setters, then set_config
reset_config(w) ==
    set_config([w EXCEPT
        !.gw.name = Some(Str(<<77, 79, 66, 73, 76, 69, 65, 76, 69, 82, 84, 83, 45,
                               71, 97, 116, 101, 119, 97, 121>>)),
        !.gw.use_dhcp = Some(1),
        !.gw.fixed_ip = Some(IPv4FromStr(<<49, 57, 50, 46, 49, 54, 56, 46, 49, 46,
                                           50, 50, 50>>)),
        !.gw.fixed_netmask = Some(IPv4FromStr(<<50, 53, 53, 46, 50, 53, 53, 46,
                                                50, 53, 53, 46, 48>>)),
        !.gw.fixed_gateway = Some(IPv4FromStr(<<49, 57, 50, 46, 49, 54, 56, 46, 49,
                                                46, 50, 53, 52>>)),
        !.gw.fixed_dns = Some(IPv4FromStr(<<49, 57, 50, 46, 49, 54, 56, 46, 49, 46,
                                            50, 53, 51>>)),
        !.gw.server = Some(Str(<<119, 119, 119, 46, 100, 97, 116, 97, 49, 57, 57,
                                 46, 99, 111, 109>>)),
        !.gw.use_proxy = Some(0),
        !.gw.proxy = Some(Str(<<49, 57, 50, 46, 49, 54, 56, 46, 49, 46, 49>>)),
        !.gw.proxy_port = Some(8080)])

\* Gateway.set_handler
set_handler(g, handler) == [g EXCEPT !.handler = handler]

\* an attach that captures the current proxy settings every time
attach_to_proxy_recapture(w, proxy, proxy_port, handler) ==
    set_config([w EXCEPT !.gw =
        set_handler([w.gw EXCEPT !.orig_use_proxy = w.gw.use_proxy,
                                 !.orig_proxy = w.gw.proxy,
                                 !.orig_proxy_port = w.gw.proxy_port,
                                 !.attached = TRUE,
                                 !.use_proxy = Some(1),
                                 !.proxy = Some(IPv4FromStr(proxy)),
                                 !.proxy_port = Some(proxy_port)],
                    handler)])
\* Gateway.attach_to_proxy; proxy is the host as a dotted decimal string
attach_to_proxy(w, proxy, proxy_port, handler) ==
    LET g == w.gw
        captured == IF g.orig_use_proxy = None
                    THEN [g EXCEPT !.orig_use_proxy = g.use_proxy,
                                   !.orig_proxy = g.proxy,
                                   !.orig_proxy_port = g.proxy_port]
                    ELSE g
    IN  set_config([w EXCEPT !.gw =
            set_handler([captured EXCEPT !.attached = TRUE,
                                         !.use_proxy = Some(1),
                                         !.proxy = Some(IPv4FromStr(proxy)),
                                         !.proxy_port = Some(proxy_port)],
                        handler)])

\* a detach that forgets the preserved settings without restoring them
detach_from_proxy_unrestored(w) ==
    set_config([w EXCEPT !.gw =
        set_handler([w.gw EXCEPT !.attached = FALSE,
                                 !.orig_use_proxy = None,
                                 !.orig_proxy = None,
                                 !.orig_proxy_port = None],
                    "None")])
\* Gateway.detach_from_proxy
detach_from_proxy(w) ==
    LET g == w.gw
        restored == IF g.attached
                    THEN [g EXCEPT !.use_proxy = g.orig_use_proxy,
                                   !.proxy = g.orig_proxy,
                                   !.proxy_port = g.orig_proxy_port]
                    ELSE g
    IN  set_config([w EXCEPT !.gw =
            set_handler([restored EXCEPT !.attached = FALSE,
                                         !.orig_use_proxy = None,
                                         !.orig_proxy = None,
                                         !.orig_proxy_port = None],
                        "None")])

\* a session that keeps its online flag when no reply came
get_config_sticky(w, reply) ==
    IF reply = None THEN w
    ELSE [Tick(w) EXCEPT !.gw.last_seen = Some(w.now), !.gw.is_online = TRUE]

\* Gateway.get_config with the network's answer: a reply to FIND_GATEWAY, or
\* None when every attempt timed out before the deadline
get_config(w, reply) ==
    IF reply = None THEN [w EXCEPT !.gw.is_online = FALSE]
    ELSE [Tick(w) EXCEPT !.gw.last_seen = Some(w.now), !.gw.is_online = TRUE]

\* the timeout get_config gives each FIND attempt, in seconds
AttemptTimeout == 5

\* outcomes of one send_command(FIND_GATEWAY, True, 5): the wait for a
\* datagram times out, a datagram arrives, or the socket raises OSError
TimedOut == [kind |-> "timeout", config |-> <<>>]
Replied(config) == [kind |-> "reply", config |-> config]
Failed == [kind |-> "OSError", config |-> <<>>]

\* the retry loop of get_config at its i-th pass, the clock at t: the
\* deadline is checked against a reading of the clock, and an attempt that
\* times out takes AttemptTimeout; attempts beyond the given ones time out
RECURSIVE RetryFind(_, _, _, _, _)
RetryFind(attempts, i, start_time, t, timeout) ==
    IF t - start_time > timeout
    THEN [result |-> None, now |-> t + 1, err |-> "ok"]
    ELSE LET a == IF i <= Len(attempts) THEN attempts[i] ELSE TimedOut
         IN  IF a.kind = "timeout"
             THEN RetryFind(attempts, i + 1, start_time, t + 1 + AttemptTimeout, timeout)
             ELSE IF a.kind = "reply"
             THEN [result |-> Some(a.config), now |-> t + 1, err |-> "ok"]
             ELSE [result |-> None, now |-> t + 1, err |-> "OSError"]

\* Gateway.get_config(timeout) with the outcomes of its FIND attempts
get_config_within(w, attempts, timeout) ==
    LET r == RetryFind(attempts, 1, w.now, w.now + 1, timeout)
        v == [w EXCEPT !.now = r.now]
    IN  IF r.err # "ok" THEN Raise(v, r.err) ELSE get_config(v, r.result)

\* the value get_config returns
get_config_result(w, attempts, timeout) ==
    RetryFind(attempts, 1, w.now, w.now + 1, timeout).result

\* bytes.fromhex(s)
FromHex(s) ==
    [i \in 1..(Len(s) \div 2) |-> HexVal(s[2 * i - 1]) * 16 + HexVal(s[2 * i])]

\* Gateway.init(config) with a config
init(w, config) == parse_config(w, Some(config))

\* a discovery that takes every valid reply for a new gateway
Discovered_never(discovered, gateway_id) == FALSE

\* gateway_id in discovered
Discovered(discovered, gateway_id) ==
    \E k \in 1..Len(discovered) : discovered[k] = gateway_id

\* the wait for each datagram in discover, in seconds
RecvTimeout == 1

\* the receive loop of discover: received are the datagrams that arrive, each
\* gap seconds after the one before; after the last of them the wait times
\* out. d is the list discovered, result the sessions made so far.  Each
\* receipt is noted with t, the seconds since start_time at which it arrived.
RECURSIVE Receive(_, _, _, _, _, _, _, _)
Receive(w, received, gap, i, start_time, timeout, d, result) ==
    IF i > Len(received)
    THEN [w |-> [w EXCEPT !.now = @ + RecvTimeout], result |-> result]
    ELSE
    LET config == received[i]
        r == [w EXCEPT !.now = @ + gap,
                       !.events = Append(@, [e |-> "recv", x |-> config,
                                             t |-> w.now + gap - start_time])]
        gateway_id == Slice(config, 2, 8)
        valid == check_config(Some(config))
    IN  IF valid /\ Discovered(d, gateway_id)
        THEN Receive(r, received, gap, i + 1, start_time, timeout, d, result)
        ELSE
        LET p == init([r EXCEPT !.gw = Gateway(FromHex(Hex(gateway_id)))], config)
            r2 == IF valid THEN [p EXCEPT !.gw = w.gw] ELSE r
            d2 == IF valid THEN Append(d, gateway_id) ELSE d
            result2 == IF valid THEN Append(result, p.gw) ELSE result
        IN  IF r2.now - start_time > timeout
            THEN [w |-> Tick(r2), result |-> result2]
            ELSE Receive(Tick(r2), received, gap, i + 1, start_time, timeout, d2, result2)

\* Gateway.discover(local_ip_address, timeout): the world after it and the
\* list it returns
discover(w, received, gap, timeout) ==
    Receive(Tick(Event(w, "sendto", "DISCOVER_GATEWAYS")), received, gap, 1, w.now,
            timeout, <<>>, <<>>)

\* Gateway.update_config (and Gateway.init without a config)
update_config(w, reply) ==
    IF reply = None THEN get_config(w, reply)
    ELSE parse_config(get_config(w, reply), reply)

\* Gateway.ping
ping(w, reply, reattach_to_proxy) ==
    LET c == get_config(w, reply)
    IN  IF reply = None \/ reply[1] = <<>> \/ ~check_config(reply) THEN c
        ELSE
        LET config == reply[1]
            u == [c EXCEPT
                    !.gw.dhcp_ip = Some(IPv4Address(Slice(config, 11, 15))),
                    !.gw.use_dhcp = Some(IF At(config, 15) # 0 THEN 1 ELSE 0),
                    !.gw.fixed_ip = Some(IPv4Address(Slice(config, 16, 20)))]
            curr_use_proxy == Some(IF At(config, 114) # 0 THEN 1 ELSE 0)
            curr_proxy == Some(Str(PySlice(config, 115, Find(config, 0, 115, 180))))
        IN  IF /\ u.gw.attached
               /\ (curr_use_proxy # u.gw.use_proxy \/ curr_proxy # u.gw.proxy)
               /\ reattach_to_proxy
            THEN set_config(u)
            ELSE u

\* the value ping returns
ping_result(reply) == reply # None /\ reply[1] # <<>> /\ check_config(reply)

---------------------------------------------------------------------------
(* The gateway device: it holds a 186-octet configuration record, answers  *)
(* FIND_GATEWAY with it, and on a SET_CONFIG packet carrying its id takes   *)
(* octets 10..180 of the packet as octets 15..185 of the record (the two    *)
(* layouts of parse_config and set_config).  A packet sent is delivered.    *)

DeviceApply(config, packet) ==
    IF Slice(packet, 0, 2) = ToBytes2(SET_CONFIG) /\ Slice(packet, 2, 8) = Slice(config, 2, 8)
    THEN Slice(config, 0, 15) \o Slice(packet, 10, 181)
    ELSE config

RECURSIVE DeviceAfter(_, _)
DeviceAfter(config, packets) ==
    IF packets = <<>> THEN config
    ELSE DeviceAfter(DeviceApply(config, Head(packets)), Tail(packets))

---------------------------------------------------------------------------
(* proxy.py: the proxy server.  Its registry maps a gateway id to the       *)
(* session attached through it; the model has one session, gw, so the       *)
(* registry is the set of ids mapped to it.  An operation records what it   *)
(* does on the network in w.events.                                         *)

\* Proxy.__init__; site is "none" until start, then "started" or "stopped";
\* gateways are the keys of the registry dict and objects maps each key to
\* the session object held under it
Proxy(handler) ==
    [handler |-> handler, gateways |-> {}, objects |-> <<>>, site |-> "none",
     host |-> None, port |-> None]

\* Gateway.gateway_id
gateway_id(g) == Hex(g.id)

\* Proxy.start on an address: the listener is up
start(w, host, port) ==
    Event([w EXCEPT !.px.site = "started", !.px.host = Some(host), !.px.port = Some(port)],
          "site.start", <<host, port>>)

\* struct.pack(">I", n)
ToBytes4(n) == ToBytes2(n \div 65536) \o ToBytes2(n % 65536)

\* the content Proxy.send_response_to_gateway packs at time t
Acknowledgement(t) ==
    ToBytes4(1) \o ToBytes4(0) \o ToBytes4(t) \o ToBytes4(1) \o ToBytes4(392287360)
    \o ToBytes4(1)

\* Proxy.send_response_to_gateway
send_response_to_gateway(w) == Event(Tick(w), "response", Acknowledgement(w.now))

\* the headers of a request that the proxy looks at
Headers(request) ==
    [content_type |-> request.content_type, content_length |-> request.content_length,
     identify |-> request.identify]

\* a relay that does not look at send_data_to_cloud
resend_data_to_cloud_always(w, url, headers, content) ==
    Event(w, "cloud.put",
          [url |-> url, proxy |-> None, headers |-> headers, data |-> content])

\* a relay that lets the error of the cloud's side through
resend_data_to_cloud_uncaught(w, url, headers, content) ==
    IF w.gw.send_data_to_cloud
    THEN LET p == Event(w, "cloud.put",
                        [url |-> url, proxy |-> None, headers |-> headers,
                         data |-> content])
         IN  IF w.cloud = "ok" THEN p ELSE Raise(p, w.cloud)
    ELSE w

\* Gateway.resend_data_to_cloud: one PUT to the cloud, through the preserved
\* original proxy if the session holds one in use; w.cloud is what the
\* client session does, "ok" or the exception it raises, which is caught
\* and logged
resend_data_to_cloud(w, url, headers, content) ==
    IF w.gw.send_data_to_cloud
    THEN LET p == Event(w, "cloud.put",
                        [url |-> url,
                         proxy |-> IF Truthy(w.gw.orig_use_proxy)
                                   THEN Some(<<w.gw.orig_proxy[1], w.gw.orig_proxy_port[1]>>)
                                   ELSE None,
                         headers |-> headers,
                         data |-> content])
         IN  IF w.cloud = "ok" THEN p ELSE Event(p, "log.error", w.cloud)
    ELSE w

\* a handler part that relays to the cloud first
HandlePut_relay_first(w, request) ==
    LET identify == request.identify[1]
    IN  IF identify[2] \notin w.px.gateways THEN Raise(w, "KeyError")
        ELSE
        LET content == Slice(request.body, 0,
                             Min(request.content_length[1], Len(request.body)))
            r == Event(Event(w, "lookup", identify[2]), "content.read", Len(content))
            c == resend_data_to_cloud(r, request.url, Headers(request), content)
        IN  handle_update(Event(c, "handle_update", identify[3]), identify[3], content,
                          None)
\* the part of Proxy.request_handler after the header checks: the lookup of
\* the session, the read of the body, handle_update, the relay
HandlePut(w, request) ==
    LET identify == request.identify[1]
    IN  IF identify[2] \notin w.px.gateways THEN Raise(w, "KeyError")
        ELSE
        LET content == Slice(request.body, 0,
                             Min(request.content_length[1], Len(request.body)))
            r == Event(Event(w, "lookup", identify[2]), "content.read", Len(content))
            h == handle_update(Event(r, "handle_update", identify[3]), identify[3],
                               content, None)
        IN  IF h.err # "ok" THEN h
            ELSE resend_data_to_cloud(h, request.url, Headers(request), content)

\* a handler that does not look at the Content-Type
request_handler_any_type(w, request) ==
    LET a == send_response_to_gateway(w)
    IN  IF /\ request.method = "PUT"
           /\ request.content_length # None
           /\ request.identify # None
           /\ Len(request.identify[1]) = 3
        THEN HandlePut(a, request)
        ELSE a
\* a handler that answers after the request is processed
request_handler_late(w, request) ==
    LET h == IF /\ request.method = "PUT"
                /\ request.content_type = Some("application/octet-stream")
                /\ request.content_length # None
                /\ request.identify # None
                /\ Len(request.identify[1]) = 3
             THEN HandlePut(w, request)
             ELSE w
    IN  IF h.err # "ok" THEN h ELSE send_response_to_gateway(h)
\* Proxy.request_handler; a request is its method, its URL, its Content-Type,
\* Content-Length and HTTP_IDENTIFY headers (None: absent; HTTP_IDENTIFY as
\* split at the colons) and its body
request_handler(w, request) ==
    LET a == send_response_to_gateway(w)
    IN  IF /\ request.method = "PUT"
           /\ request.content_type = Some("application/octet-stream")
           /\ request.content_length # None
           /\ request.identify # None
           /\ Len(request.identify[1]) = 3
        THEN HandlePut(a, request)
        ELSE a

\* a registry that takes the session of every attach_gateway
attach_gateway_replacing(w) ==
    LET r == [w EXCEPT !.px.gateways = @ \cup {gateway_id(w.gw)},
                       !.px.objects = (gateway_id(w.gw) :> w.who) @@ @]
    IN  IF r.px.site = "none" THEN Raise(r, "AttributeError")
        ELSE attach_to_proxy(r, r.px.host[1], r.px.port[1], r.px.handler)

\* Proxy.attach_gateway(gateway) for the session object w.who, held in w.gw
attach_gateway(w) ==
    IF gateway_id(w.gw) \in w.px.gateways THEN w
    ELSE LET r == [w EXCEPT !.px.gateways = @ \cup {gateway_id(w.gw)},
                            !.px.objects = (gateway_id(w.gw) :> w.who) @@ @]
         IN  IF r.px.site = "none" THEN Raise(r, "AttributeError")
             ELSE attach_to_proxy(r, r.px.host[1], r.px.port[1], r.px.handler)

\* Proxy.detach_gateway
detach_gateway(w) ==
    IF gateway_id(w.gw) \in w.px.gateways
    THEN LET d == detach_from_proxy(Event(w, "detach", gateway_id(w.gw)))
         IN  IF d.err # "ok" THEN d
             ELSE [d EXCEPT !.px.gateways = @ \ {gateway_id(w.gw)},
                            !.px.objects = [i \in DOMAIN @ \ {gateway_id(w.gw)} |-> @[i]]]
    ELSE w

\* Proxy.detach_all_gateways: the loop over the registry, then clear()
detach_all_gateways(w) ==
    IF w.px.gateways = {} THEN w
    ELSE LET d == detach_from_proxy(Event(w, "detach", gateway_id(w.gw)))
         IN  IF d.err # "ok" THEN d
             ELSE [d EXCEPT !.px.gateways = {}, !.px.objects = <<>>]

\* Proxy.stop
stop(w) ==
    IF w.px.site = "none" THEN Raise(w, "AttributeError")
    ELSE detach_all_gateways(Event([w EXCEPT !.px.site = "stopped"], "site.stop", None))

\* Proxy.restart(local_ip_address, local_port): the listener is stopped and
\* started on the new address; the registry is not touched
restart(w, host, port) ==
    IF w.px.site = "none" THEN Raise(w, "AttributeError")
    ELSE start(Event([w EXCEPT !.px.site = "stopped"], "site.stop", None), host, port)

---------------------------------------------------------------------------
(* Inputs.                                                                 *)

\* the session's gateway id, 001D8C0EA927
GatewayId == <<0, 29, 140, 14, 169, 39>>

\* sensor ids 0215C1B2E3EF (type 0x02, 14-bit counter) and 1829EFCB988D
\* (type 0x18, 22-bit counter)
SensorIdA == <<2, 21, 193, 178, 227, 239>>
SensorIdB == <<24, 41, 239, 203, 152, 141>>
SensorIds == {SensorIdA, SensorIdB}

Handlers == {"None", "H"}

\* A 63-octet sub-frame of sensor id6 with counter c.  Variant 1 carries
\* timestamp 1 and the by-event flag, variant 2 timestamp 2, the low-battery
\* flag and other measurement octets.
Frame(id6, variant, c) ==
    LET three == id6[1] \in {11, 24}
        top == IF three THEN 23 ELSE 15
        word == c + (IF variant = 2 THEN 2 ^ top ELSE 2 ^ (top - 1))
        counter == IF three THEN <<word \div 65536>> \o ToBytes2(word) ELSE ToBytes2(word)
        head == <<206, 0, 0, 0, variant, 18>> \o id6 \o counter
                \o <<0, 50 + variant, 40 + variant, 0, 60 + variant, 0, 50, 39, 0, 61>>
    IN  head \o Zeros(63 - Len(head))

Counters == {1, 2}

Frames == {Frame(id6, v, c) : id6 \in SensorIds, v \in {1, 2}, c \in Counters}

\* the checksum octets tried with a sub-frame: the right one and, with the
\* frames of variant 1, a wrong one and the right one with the high bit set
Good(package) == Sum(package) % 128

Checksums(package) ==
    {Good(package)}
    \cup (IF At(package, 4) = 1
          THEN {(Good(package) + 1) % 128, Good(package) + 128}
          ELSE {})

Record(package, good) ==
    package \o <<IF good THEN Good(package) ELSE (Good(package) + 1) % 128>>

\* sensor batches: one record, and two records followed by a fragment
Batches ==
    {Record(Frame(i, 1, 1), TRUE) : i \in SensorIds}
    \cup {Record(Frame(SensorIdA, 1, 1), g) \o Record(Frame(i, 2, 1), TRUE) \o <<1, 2, 3>> :
            g \in BOOLEAN, i \in SensorIds}

\* a bootup package of this gateway, firmware 1.51, and one of another gateway
Bootups ==
    {<<0, 0, 0, 0, 9>> \o i \o <<0, 1, 0, 51>> : i \in {GatewayId, SensorIdA}}

\* a configuration record as the device holds it
MkConfig(id, length, name, server, use_proxy, proxy, proxy_port) ==
    <<0, 3>> \o id \o ToBytes2(length) \o <<0>> \o <<10, 0, 0, 5>> \o <<1>>
    \o <<192, 168, 1, 222>> \o <<255, 255, 255, 0>> \o <<192, 168, 1, 254>>
    \o name \o Zeros(21 - Len(name))
    \o server \o Zeros(65 - Len(server))
    \o <<use_proxy>>
    \o proxy \o Zeros(65 - Len(proxy))
    \o ToBytes2(proxy_port) \o <<192, 168, 1, 253>>

\* the record of a gateway named "gw" with an s-octet cloud server name and
\* an h-octet proxy host name
ConfigOf(s, use_proxy, h) ==
    MkConfig(GatewayId, 186, <<103, 119>>, Rep(115, s), use_proxy, Rep(104, h), 8080)

---------------------------------------------------------------------------
(* The session handling sensor updates.                                    *)

\* the session's current proxy settings and the preserved original ones
Triple(g) == <<g.use_proxy, g.proxy, g.proxy_port>>
OrigTriple(g) == <<g.orig_use_proxy, g.orig_proxy, g.orig_proxy_port>>

\* the history of the last attach after the operation name
AttAfter(name) ==
    IF name = "attach_to_proxy"
    THEN Some([triple |-> Triple(gw), held |-> OrigTriple(gw),
               attached |-> gw.attached, initialized |-> gw.initialized,
               device |-> device, ended |-> FALSE])
    ELSE IF att = None \/ att[1].ended THEN None
    ELSE IF name \in {"handle_update", "ping"} THEN att
    ELSE IF name = "detach_from_proxy" THEN Some([att[1] EXCEPT !.ended = TRUE])
    ELSE None

\* the state after an operation that ends in world r
After(r, name, args, ret) ==
    /\ att' = AttAfter(name)
    /\ gw' = r.gw
    /\ calls' = r.calls
    /\ sent' = r.sent
    /\ now' = r.now
    /\ err' = r.err
    /\ device' = DeviceAfter(device, r.sent)
    /\ op' = [name |-> name, args |-> args, ret |-> ret]
    /\ px' = r.px
    /\ events' = r.events

\* the state after an operation called while no upload is suspended
Do(r, name, args, ret) ==
    /\ After(r, name, args, ret)
    /\ tasks' = tasks

Init ==
    /\ gw = Gateway(GatewayId)
    /\ calls = <<>>
    /\ sent = <<>>
    /\ device = ConfigOf(15, 0, 11)
    /\ now = 1
    /\ err = "ok"
    /\ att = None
    /\ px = Proxy("None")
    /\ events = <<>>
    /\ tasks = <<>>
    /\ op = [name |-> "Gateway", args |-> <<GatewayId>>, ret |-> None]

\* gateway.set_handler(handler)
SetHandler(handler) ==
    /\ handler # gw.handler
    /\ Do([World EXCEPT !.gw = set_handler(gw, handler)], "set_handler", <<handler>>, None)

\* gateway.add_sensor(Sensor(gateway, sensor_id))
AddSensor(id6) ==
    /\ now <= MaxTime
    /\ Do([Tick(World) EXCEPT !.gw = add_sensor(gw, Sensor(Hex(id6), now))],
          "add_sensor", <<Hex(id6)>>, None)

\* await gateway.handle_update(code, packages, remote_ip)
HandleUpdate(code, packages, remote_ip) ==
    /\ now <= MaxTime
    /\ Do(handle_update(World, code, packages, remote_ip),
          "handle_update", <<code, packages, remote_ip>>, None)

\* await gateway.handle_sensor_update(package, package_checksum)
HandleSensorUpdate(package, package_checksum) ==
    /\ now <= MaxTime
    /\ Do(handle_sensor_update(World, package, package_checksum),
          "handle_sensor_update", <<package, package_checksum>>, None)

Next ==
    \/ \E h \in Handlers : SetHandler(h)
    \/ \E i \in SensorIds : AddSensor(i)
    \/ \E b \in Batches : HandleUpdate("C0", b, None)
    \/ \E b \in Bootups : HandleUpdate("00", b, None)
    \/ HandleUpdate("XX", <<1, 2>>, None)
    \/ \E f \in Frames : \E c \in Checksums(f) : HandleSensorUpdate(f, c)

Spec == Init /\ [][Next]_vars

---------------------------------------------------------------------------
(* A sensor object fed packets directly, as sensor.last_update = packet    *)
(* does: the object is the one entry of the registry.                      *)

\* sensor ids of the types 0x02, 0x18, 0x15 (key press), 0x08 (rain),
\* 0x0B (wind), 0x75 (unknown) and 0x10 (door/window)
SensorIdKey == <<21, 255, 255, 255, 255, 255>>
SensorIdRain == <<8, 255, 255, 255, 255, 255>>
SensorIdWind == <<11, 255, 255, 255, 255, 255>>
SensorIdUnknown == <<117, 255, 255, 255, 255, 255>>
SensorIdDoor == <<16, 255, 255, 255, 255, 255>>
\* and of the types 0x09 and 0x0E (temperature, humidity and more)
SensorIdExternal == <<9, 255, 255, 255, 255, 255>>
SensorIdHR == <<14, 255, 255, 255, 255, 255>>
SensorTypeIds ==
    {SensorIdA, SensorIdB, SensorIdKey, SensorIdRain, SensorIdWind, SensorIdUnknown,
     SensorIdDoor, SensorIdExternal, SensorIdHR}

InitSensor ==
    /\ \E id6 \in SensorTypeIds :
         /\ gw = add_sensor(Gateway(GatewayId), Sensor(Hex(id6), 1))
         /\ op = [name |-> "Sensor", args |-> <<Hex(id6)>>, ret |-> None]
    /\ calls = <<>>
    /\ sent = <<>>
    /\ device = ConfigOf(15, 0, 11)
    /\ now = 2
    /\ err = "ok"
    /\ att = None
    /\ px = Proxy("None")
    /\ events = <<>>
    /\ tasks = <<>>

\* the one sensor object
TheSensorId == CHOOSE i \in DOMAIN gw.sensors : TRUE

\* sensor.parse_packet(packet), also sensor.last_update = packet
ParsePacket(sensor_id, packet) ==
    /\ Registered(gw, sensor_id)
    /\ Do([World EXCEPT !.gw.sensors[sensor_id] = parse_packet(@, packet)],
          "parse_packet", <<sensor_id, packet>>, None)

\* sensor.last_update = None
ClearLastUpdate(sensor_id) ==
    /\ Registered(gw, sensor_id)
    /\ gw.sensors[sensor_id].last_update # None
    /\ Do([World EXCEPT !.gw.sensors[sensor_id].last_update = None],
          "last_update", <<sensor_id>>, None)

\* octet 14 of the frames of a key-press sensor: 0x12 (the frame of
\* test_sensor, "green", "double"), 0x21 and 0x43
KeyOctets == {18, 33, 67}

\* a frame of the key-press sensor with octet 14 set
KeyFrame(k, c) == [Frame(SensorIdKey, 1, c) EXCEPT ![15] = k]

\* octets 18..27 of the type 0x08 frame of test_sensor: five time spans
RainSpans == <<149, 24, 155, 173, 131, 229, 140, 106, 197, 21>>

\* a frame of the rain sensor that carries them
RainFrame(c) ==
    LET f == Frame(SensorIdRain, 1, c)
    IN  Slice(f, 0, 18) \o RainSpans \o Slice(f, 28, 63)

NextSensor ==
    \/ \E c \in Counters : ParsePacket(Hex(SensorIdRain), RainFrame(c))
    \/ \E id6 \in SensorTypeIds, v \in {1, 2}, c \in Counters :
         ParsePacket(Hex(id6), Frame(id6, v, c))
    \/ \E k \in KeyOctets, c \in Counters : ParsePacket(Hex(SensorIdKey), KeyFrame(k, c))
    \/ \E id6 \in SensorTypeIds : ClearLastUpdate(Hex(id6))

SpecSensor == InitSensor /\ [][NextSensor]_vars

---------------------------------------------------------------------------
(* The session configuring a gateway device: the device answers            *)
(* FIND_GATEWAY with its record and applies the SET_CONFIG packets sent.    *)

\* (server name length, use-proxy flag, proxy host length) of the records
\* the device may hold at the start: a short server name; a preserved tuple
\* of 3 + 5 octets that ends exactly at the end of the server field's tail;
\* one that spills into the proxy field; an empty host whose tuple ends
\* exactly at the end of the tail; a tail that holds the markers only
DeviceShapes == {<<15, 0, 11>>, <<54, 0, 5>>, <<57, 1, 5>>, <<59, 0, 0>>, <<62, 1, 5>>}

\* record with the length field set to n
WithLength(config, n) == Slice(config, 0, 8) \o ToBytes2(n) \o Slice(config, 10, Len(config))

\* another gateway's id
OtherId == <<0, 29, 140, 14, 169, 40>>

\* the records handed to parse_config: the device's record, the record
\* followed by 4 octets with a matching length field, a wrong length field,
\* a record cut short with a matching length field, another gateway's
\* record, and none
Records ==
    {Some(device),
     Some(WithLength(device \o <<0, 0, 0, 0>>, 190)),
     Some(WithLength(device, 187)),
     Some(WithLength(Slice(device, 0, 185), 185)),
     Some(Slice(device, 0, 2) \o OtherId \o Slice(device, 8, 186)),
     None}

\* proxy endpoints: "192.168.1.10":5000 and "10.0.0.2":80
Endpoints ==
    {<<(<<49, 57, 50, 46, 49, 54, 56, 46, 49, 46, 49, 48>>), 5000>>,
     <<(<<49, 48, 46, 48, 46, 48, 46, 50>>), 80>>}

InitConfig ==
    /\ gw = Gateway(GatewayId)
    /\ calls = <<>>
    /\ sent = <<>>
    /\ \E d \in DeviceShapes : device = ConfigOf(d[1], d[2], d[3])
    /\ now = 1
    /\ err = "ok"
    /\ op = [name |-> "Gateway", args |-> <<GatewayId>>, ret |-> None]
    /\ att = None
    /\ px = Proxy("None")
    /\ events = <<>>
    /\ tasks = <<>>

\* a new session object for the same gateway
NewSession ==
    /\ gw # Gateway(GatewayId)
    /\ Do([World EXCEPT !.gw = Gateway(GatewayId)], "Gateway", <<GatewayId>>, None)

\* gateway.parse_config(config), also gateway.init(config)
ParseConfig(config) ==
    /\ now <= MaxTime
    /\ Do(parse_config(World, config), "parse_config", <<config>>,
          parse_config_result(gw, config))

\* await gateway.update_config()
UpdateConfig(reply) ==
    /\ now <= MaxTime
    /\ Do(update_config(World, reply), "update_config", <<reply>>,
          reply # None /\ parse_config_result(gw, reply))

\* gateway.set_config()
SetConfig == Do(set_config(World), "set_config", <<>>, None)

\* gateway.reset_config()
ResetConfig == Do(reset_config(World), "reset_config", <<>>, None)

\* gateway.attach_to_proxy(proxy, proxy_port, handler)
AttachToProxy(proxy, proxy_port, handler) ==
    Do(attach_to_proxy(World, proxy, proxy_port, handler),
       "attach_to_proxy", <<proxy, proxy_port, handler>>, None)

\* gateway.detach_from_proxy()
DetachFromProxy == Do(detach_from_proxy(World), "detach_from_proxy", <<>>, None)

\* await gateway.ping(reattach_to_proxy)
Ping(reply, reattach_to_proxy) ==
    /\ now <= MaxTime
    /\ Do(ping(World, reply, reattach_to_proxy), "ping", <<reply, reattach_to_proxy>>,
          ping_result(reply))

\* an update the proxy hands to the session: the proxy knows the sessions
\* attached through it only
ProxyUpdate(code, packages, remote_ip) ==
    /\ gw.attached
    /\ HandleUpdate(code, packages, remote_ip)

\* the bootup packet of the session's gateway
Bootup == <<0, 0, 0, 0, 9>> \o GatewayId \o <<0, 1, 0, 51>>

NextConfig ==
    \/ NewSession
    \/ UpdateConfig(Some(device))
    \/ \E e \in Endpoints : AttachToProxy(e[1], e[2], "H")
    \/ DetachFromProxy
    \/ \E r \in {None, Some(device)}, b \in BOOLEAN : Ping(r, b)
    \/ ProxyUpdate("00", Bootup, None)

SpecConfig == InitConfig /\ [][NextConfig]_vars

---------------------------------------------------------------------------
(* The control calls and parse_config on a session, initialized or not.    *)

InitControl ==
    /\ gw = Gateway(GatewayId)
    /\ calls = <<>>
    /\ sent = <<>>
    /\ device = ConfigOf(15, 0, 11)
    /\ now = 1
    /\ err = "ok"
    /\ op = [name |-> "Gateway", args |-> <<GatewayId>>, ret |-> None]
    /\ att = None
    /\ px = Proxy("None")
    /\ events = <<>>
    /\ tasks = <<>>

NextControl ==
    \/ NewSession
    \/ \E c \in Records : ParseConfig(c)
    \/ SetConfig
    \/ ResetConfig
    \/ \E e \in Endpoints : AttachToProxy(e[1], e[2], "H")
    \/ DetachFromProxy

SpecControl == InitControl /\ [][NextControl]_vars

---------------------------------------------------------------------------
(* The proxy server with the session attached through it.                  *)

\* a PUT of the session's gateway as the proxy accepts it
Put(code, body) ==
    [method |-> "PUT", url |-> "/gateway/put",
     content_type |-> Some("application/octet-stream"),
     content_length |-> Some(Len(body)),
     identify |-> Some(<<"80", Hex(GatewayId), code>>), body |-> body]

\* the body of a batch with one record, of a sensor's first frame
BatchOf(id6) == Record(Frame(id6, 1, 1), TRUE)

\* requests: sensor batches of two sensors and a bootup packet; then, with
\* the first batch, another method, another or no Content-Type, no
\* Content-Length, no HTTP_IDENTIFY, one of two parts, another gateway's id
Requests ==
    {Put("C0", BatchOf(SensorIdB)), Put("C0", BatchOf(SensorIdA)), Put("00", Bootup)}
    \cup {[Put("C0", BatchOf(SensorIdB)) EXCEPT !.method = "GET"],
          [Put("C0", BatchOf(SensorIdB)) EXCEPT !.content_type = Some("text/plain")],
          [Put("C0", BatchOf(SensorIdB)) EXCEPT !.content_type = None],
          [Put("C0", BatchOf(SensorIdB)) EXCEPT !.content_length = None],
          [Put("C0", BatchOf(SensorIdB)) EXCEPT !.identify = None],
          [Put("C0", BatchOf(SensorIdB)) EXCEPT !.identify = Some(<<Hex(GatewayId), "C0">>)],
          [Put("C0", BatchOf(SensorIdB)) EXCEPT !.identify = Some(<<"80", Hex(OtherId), "C0">>)]}

InitProxy ==
    /\ gw = Gateway(GatewayId)
    /\ calls = <<>>
    /\ sent = <<>>
    /\ device = ConfigOf(15, 0, 11)
    /\ now = 1
    /\ err = "ok"
    /\ op = [name |-> "Proxy", args |-> <<"H">>, ret |-> None]
    /\ att = None
    /\ px = Proxy("H")
    /\ events = <<>>
    /\ tasks = <<>>

\* await proxy.start() on the address 192.168.1.10:5000
Start ==
    /\ px.site # "started"
    /\ Do(start(World, <<49, 57, 50, 46, 49, 54, 56, 46, 49, 46, 49, 48>>, 5000),
          "start", <<>>, None)

\* proxy.attach_gateway(gateway)
AttachGateway == Do(attach_gateway(World), "attach_gateway", <<>>, None)

\* proxy.detach_gateway(gateway)
DetachGateway == Do(detach_gateway(World), "detach_gateway", <<>>, None)

\* await proxy.stop()
Stop == Do(stop(World), "stop", <<>>, None)

\* a request arrives at the listener; cloud is what the relay meets
Request(request, cloud) ==
    /\ px.site = "started"
    /\ now <= MaxTime
    /\ Do(request_handler([World EXCEPT !.cloud = cloud], request), "request_handler",
          <<request, cloud>>, None)

\* what the client session of the relay does: it succeeds or raises
Clouds == {"ok", "ClientError"}

\* gateway.send_data_to_cloud = value
SetSendDataToCloud(value) ==
    /\ value # gw.send_data_to_cloud
    /\ Do([World EXCEPT !.gw.send_data_to_cloud = value], "send_data_to_cloud",
          <<value>>, None)

NextProxy ==
    \/ Start
    \/ UpdateConfig(Some(device))
    \/ AddSensor(SensorIdB)
    \/ AttachGateway
    \/ DetachGateway
    \/ Stop
    \/ \E v \in BOOLEAN : SetSendDataToCloud(v)
    \/ \E r \in Requests, c \in Clouds : Request(r, c)

SpecProxy == InitProxy /\ [][NextProxy]_vars

---------------------------------------------------------------------------
(* The registry of the proxy with two session objects of one gateway.      *)

\* a second session object for the same gateway, initialized from the
\* device's record
OtherSession == init([World EXCEPT !.gw = Gateway(GatewayId)], device).gw

\* proxy.attach_gateway(other): the state after it, the session gw apart,
\* and the other session as the call leaves it
AttachOtherGateway ==
    /\ now <= MaxTime
    /\ LET r == attach_gateway([World EXCEPT !.gw = OtherSession, !.who = "other"])
       IN  Do([r EXCEPT !.gw = gw], "attach_gateway", <<"other">>, Some(r.gw))

\* proxy.detach_gateway(other)
DetachOtherGateway ==
    /\ now <= MaxTime
    /\ LET r == detach_gateway([World EXCEPT !.gw = OtherSession, !.who = "other"])
       IN  Do([r EXCEPT !.gw = gw], "detach_gateway", <<"other">>, Some(r.gw))

NextRegistry ==
    \/ Start
    \/ UpdateConfig(Some(device))
    \/ AttachGateway
    \/ DetachGateway
    \/ AttachOtherGateway
    \/ DetachOtherGateway

SpecRegistry == InitProxy /\ [][NextRegistry]_vars

---------------------------------------------------------------------------
(* Finding the session's gateway and discovering gateways on the network.  *)

\* datagrams a socket may receive: the device's record and the record of
\* another gateway
OtherDevice == Slice(device, 0, 2) \o OtherId \o Slice(device, 8, 186)

\* the outcomes of the first FIND attempts; later attempts time out
Attempts ==
    UNION {[1..n -> {TimedOut, Failed, Replied(device), Replied(OtherDevice)}] :
           n \in 0..MaxAttempts}

\* overall deadlines: they leave time for one attempt, for two, and the
\* default
Deadlines == {4, 8, 30}

\* await gateway.get_config(timeout)
GetConfig(attempts, timeout) ==
    /\ now <= MaxTime
    /\ Do(get_config_within(World, attempts, timeout), "get_config",
          <<attempts, timeout>>, get_config_result(World, attempts, timeout))

\* replies to DISCOVER: the device's record, a later record of the same
\* gateway under another name, another gateway's record, a longer record
\* with a matching length field, and a record with a wrong length field
Replies ==
    {device,
     Slice(device, 0, 28) \o <<78>> \o Slice(device, 29, 186),
     OtherDevice,
     WithLength(Slice(device, 0, 2) \o <<0, 29, 140, 14, 169, 41>>
                    \o Slice(device, 8, 186) \o <<0, 0, 0, 0>>, 190),
     WithLength(device, 187)}

\* the datagrams that arrive after one broadcast, in order
Received == UNION {[1..n -> Replies] : n \in 0..MaxReplies}

\* timeouts of discover: the default and a longer one
DiscoverTimeouts == {2, 10}

\* await Gateway.discover(None, timeout)
Discover(received, gap, timeout) ==
    /\ now <= MaxTime
    /\ LET r == discover(World, received, gap, timeout)
       IN  Do(r.w, "discover", <<received, gap, timeout>>, r.result)

NextFind ==
    \/ NewSession
    \/ UpdateConfig(Some(device))
    \/ \E a \in Attempts, t \in Deadlines : GetConfig(a, t)

SpecFind == InitControl /\ [][NextFind]_vars

NextDiscovery == \E r \in Received, g \in {0, 1}, t \in DiscoverTimeouts : Discover(r, g, t)

SpecDiscovery == InitControl /\ [][NextDiscovery]_vars

---------------------------------------------------------------------------
(* Properties of update handling.                                          *)

\* the number of callbacks fn made for sensor_id in a call log
Count(log, fn, sensor_id) ==
    Cardinality({i \in 1..Len(log) : log[i] = [fn |-> fn, id |-> sensor_id]})

\* the sensor id a sub-frame names
IdOf(package) == Hex(Slice(package, 6, 12))

\* the step handles one sub-frame whose checksum octet is right
HandledGood ==
    /\ op'.name = "handle_sensor_update"
    /\ Sum(op'.args[1]) % 128 = op'.args[2]

\* the sensor ids of the records of a batch whose checksum octet is right
GoodIds(packages) ==
    {IdOf(Slice(packages, 64 * k, 64 * k + 63)) :
        k \in {n \in 0..(Len(packages) \div 64 - 1) :
                 Sum(Slice(packages, 64 * n, 64 * n + 63)) % 128
                     = At(packages, 64 * n + 63)}}

\* C1: a sensor batch handled with a handler installed invokes sensor_added
\* exactly once for each sensor id that has a record passing the checksum
\* and is not yet in the registry, registering it, and not at all for an id
\* already registered.
C1_AddedOncePerSensor ==
    [][(op'.name = "handle_update" /\ op'.args[1] = "C0" /\ gw.handler # "None") =>
         \A id \in GoodIds(op'.args[2]) :
            /\ Registered(gw', id)
            /\ Count(calls', "sensor_added", id)
                 = Count(calls, "sensor_added", id)
                     + (IF Registered(gw, id) THEN 0 ELSE 1)]_vars

\* C2: a sub-frame passing the checksum whose decoded counter equals the
\* counter stored in the registered sensor (a replay) invokes no handler
\* callback.
C2_ReplayFiresNoUpdate ==
    [][(/\ HandledGood
        /\ Registered(gw, IdOf(op'.args[1]))
        /\ ~_parse_packet_header(gw.sensors[IdOf(op'.args[1])], op'.args[1]).result)
       => calls' = calls]_vars

\* C3: parse_packet of a frame whose masked counter equals the stored
\* counter changes no field of the sensor.
C3_DuplicateChangesNothing ==
    [][(/\ op'.name = "parse_packet"
        /\ op'.args[1] \in DOMAIN gw.sensors
        /\ ~_parse_packet_header(gw.sensors[op'.args[1]], op'.args[2]).result)
       => gw'.sensors[op'.args[1]] = gw.sensors[op'.args[1]]]_vars

\* C4: handle_sensor_update accepts a sub-frame exactly when the sum of its
\* 63 octets modulo 128 equals the checksum octet: on a match the session is
\* stamped as seen at the clock's reading and the sensor is looked up; on a
\* mismatch the session with its sensors and last_seen, and the call log,
\* stay as they were and nothing is raised.
C4_ChecksumDecidesAcceptance ==
    [][op'.name = "handle_sensor_update" =>
         IF Sum(op'.args[1]) % 128 = op'.args[2]
         THEN /\ gw'.last_seen = Some(now)
              /\ now' = now + 1
              /\ (Registered(gw, IdOf(op'.args[1])) =>
                    gw'.sensors[IdOf(op'.args[1])].timestamp
                        = FromBytes(Slice(op'.args[1], 1, 5)))
         ELSE gw' = gw /\ calls' = calls /\ now' = now /\ err' = "ok"]_vars

\* C4 witness: a sub-frame with a wrong checksum octet was handled for a
\* registered sensor while a handler was installed and the session had been
\* seen before.
C4_Witness ==
    /\ op.name = "handle_sensor_update"
    /\ Sum(op.args[1]) % 128 # op.args[2]
    /\ Registered(gw, IdOf(op.args[1]))
    /\ gw.handler # "None"
    /\ gw.last_seen # None

---------------------------------------------------------------------------
(* Properties of the configuration codec and the proxy attachment.         *)

\* the session a new Gateway object becomes by parsing a record
Fresh(config) == parse_config([World EXCEPT !.gw = Gateway(GatewayId)], Some(config)).gw

NoTriple == <<None, None, None>>

\* a triple as a record holds it: the flag, the host's text and the port
Text(t) == <<t[1][1], StrBytes(t[2][1]), t[3][1]>>

\* a SET_CONFIG packet carries the triple t in its use-proxy octet, proxy
\* field and port, and no marker after the server name or the proxy host
Carries(packet, t, server) ==
    /\ At(packet, 109) = t[1][1]
    /\ Slice(packet, 110, 175) = StrBytes(t[2][1]) \o Zeros(65 - Len(StrBytes(t[2][1])))
    /\ FromBytes(Slice(packet, 175, 177)) = t[3][1]
    /\ Slice(packet, 44, 109) = StrBytes(server) \o Zeros(65 - Len(StrBytes(server)))

\* attach_to_proxy on an initialized session with proxy settings, then only
\* handled updates and pings, then detach_from_proxy, which has just ended
AttachThenDetach ==
    /\ att # None
    /\ att[1].ended
    /\ att[1].initialized
    /\ att[1].triple[1] # None

\* C5 (as stated): after attach, updates and pings, and detach, the
\* session's (use_proxy, proxy, proxy_port) equal their values immediately
\* before the attach, detach's SET_CONFIG packet carries them, and the
\* device's record parses to the same three values as before the attach.
C5_DetachRestoresPreAttach ==
    AttachThenDetach =>
        /\ Triple(gw) = att[1].triple
        /\ Len(sent) = 1
        /\ Carries(sent[1], att[1].triple, gw.server[1])
        /\ Triple(Fresh(device)) = Triple(Fresh(att[1].device))

\* the triple detach reinstates: the one the session held at the attach if
\* it held one, else the values the attach captured
Captured(a) == IF a.held[1] # None THEN a.held ELSE a.triple

\* C5 (amended): after attach, updates and pings, and detach, the session's
\* (use_proxy, proxy, proxy_port) equal the preserved triple the session
\* held when attach was called, or, if it held none, their values
\* immediately before the attach; the session holds no preserved triple and
\* is not attached; detach sent one SET_CONFIG packet that carries those
\* values and no markers, and a new session parsing the device's record
\* reads those values and recovers no preserved triple.
C5_DetachRestoresCaptured ==
    AttachThenDetach =>
        /\ Triple(gw) = Captured(att[1])
        /\ OrigTriple(gw) = NoTriple
        /\ ~gw.attached
        /\ err = "ok"
        /\ Len(sent) = 1
        /\ Carries(sent[1], Captured(att[1]), gw.server[1])
        /\ Text(Triple(Fresh(device))) = Text(Captured(att[1]))
        /\ OrigTriple(Fresh(device)) = NoTriple

\* C5 witness: a session that was not attached and held a preserved triple
\* recovered from the record, different from its current settings, was
\* attached and detached, and the clock was read in between (an update or a
\* ping was handled).
C5_Witness ==
    /\ AttachThenDetach
    /\ op.name = "detach_from_proxy"
    /\ ~att[1].attached
    /\ att[1].held[1] # None
    /\ att[1].held # att[1].triple
    /\ gw.last_seen # None
    /\ Triple(gw) = att[1].held

\* C6: attach_to_proxy leaves a preserved triple the session holds as it is
\* and captures the current (use_proxy, proxy, proxy_port) only when none is
\* held; in both cases the current settings become (True, the endpoint's
\* address, the endpoint's port), the session is attached and the handler
\* installed.
C6_AttachCapturesOnce ==
    op.name = "attach_to_proxy" =>
        /\ att # None
        /\ OrigTriple(gw) = Captured(att[1])
        /\ Triple(gw) = <<Some(1), Some(IPv4FromStr(op.args[1])), Some(op.args[2])>>
        /\ gw.attached
        /\ gw.handler = op.args[3]

\* C6 witness: an attached session holding a triple was attached again, to
\* another endpoint, and still holds the triple it held.
C6_Witness ==
    /\ op.name = "attach_to_proxy"
    /\ att # None
    /\ att[1].attached
    /\ att[1].initialized
    /\ att[1].held[1] # None
    /\ att[1].triple # Triple(gw)
    /\ att[1].held # att[1].triple
    /\ OrigTriple(gw) = att[1].held
    /\ err = "ok"

\* C7: detach_from_proxy on an initialized session that is not attached and
\* holds no preserved triple changes no session field and sends no packet.
C7_DetachWithoutTripleIsNoOp ==
    [][(/\ op'.name = "detach_from_proxy"
        /\ gw.initialized
        /\ ~gw.attached
        /\ gw.orig_use_proxy = None)
       => gw' = gw /\ sent' = <<>>]_vars

\* the preserved tuple of session g fits the tails of the server and proxy
\* fields, each tail giving up three octets to the NUL and the markers
Fits(g) ==
    LET n1 == 65 - Len(StrBytes(g.server[1]))
        n2 == 65 - Len(StrBytes(g.proxy[1]))
    IN  /\ n1 >= 3
        /\ n2 >= 3
        /\ 3 + Len(g.orig_proxy[1].s) <= (n1 - 3) + (n2 - 3)

\* C8: when an attached session's set_config has written a record whose
\* preserved tuple fits the tails, a new session parsing the device's record
\* recovers orig_use_proxy, orig_proxy and orig_proxy_port equal to the
\* triple the attached session holds.
C8_PreservedTripleSurvives ==
    (/\ op.name \in {"attach_to_proxy", "ping"}
     /\ gw.initialized
     /\ gw.attached
     /\ gw.orig_use_proxy # None
     /\ err = "ok"
     /\ sent # <<>>
     /\ Fits(gw))
    => OrigTriple(Fresh(device)) = OrigTriple(gw)

\* C9: parse_config returns true exactly for a record whose length equals
\* its length field and 186 and whose octets 2..7 are the session's gateway
\* id, and a record it rejects leaves the session as it was.
C9_ParseAcceptsExactly186 ==
    [][op'.name = "parse_config" =>
         LET config == op'.args[1]
             valid == /\ config # None
                      /\ Len(config[1]) = 186
                      /\ Len(config[1]) = FromBytes(Slice(config[1], 8, 10))
                      /\ Slice(config[1], 2, 8) = gw.id
         IN  /\ op'.ret = valid
             /\ (~op'.ret => gw' = gw)]_vars

\* C10: set_config, reset_config, attach_to_proxy and detach_from_proxy on
\* a session that has not parsed a config raise the "not initialized"
\* exception and send no packet.
C10_ControlCallNeedsInit ==
    (/\ op.name \in {"set_config", "reset_config", "attach_to_proxy", "detach_from_proxy"}
     /\ ~gw.initialized)
    => err = "Exception" /\ sent = <<>>

\* C10 witness: reset_config was called on a session that has not parsed a
\* config: every field set_config reads is written, the exception is raised.
C10_Witness ==
    /\ op.name = "reset_config"
    /\ ~gw.initialized
    /\ gw.use_dhcp # None
    /\ gw.server # None
    /\ gw.proxy_port # None
    /\ err = "Exception"

---------------------------------------------------------------------------
(* Properties of the proxy server.                                         *)

\* the 24 octets of the acknowledgement written at time t: the big-endian
\* words 1, 0, t, 1, 0x1761D480, 1
AckOctets(t) ==
    <<0, 0, 0, 1, 0, 0, 0, 0,
      t \div 16777216, (t \div 65536) % 256, (t \div 256) % 256, t % 256,
      0, 0, 0, 1, 23, 97, 212, 128, 0, 0, 0, 1>>

\* the positions of the events named e
At_(e) == {i \in 1..Len(events) : events[i].e = e}

\* C11: every request the proxy handles, whatever its method and headers and
\* whether or not its gateway is registered, writes the 24-octet
\* acknowledgement 1, 0, time, 1, 0x1761D480, 1 exactly once, as the first
\* thing the handler does: before the lookup of the session, the read of
\* the body, handle_update and the relay.
C11_AcknowledgementFirst ==
    [][op'.name = "request_handler" =>
         /\ events' # <<>>
         /\ events'[1] = [e |-> "response", x |-> AckOctets(now)]
         /\ Len(events'[1].x) = 24
         /\ \A i \in 2..Len(events') : events'[i].e # "response"]_vars

\* C11 witness: a request was handled through to the relay: the session was
\* looked up, the body read, handle_update called and the relay made, all
\* after the one acknowledgement.
C11_Witness ==
    /\ op.name = "request_handler"
    /\ At_("response") = {1}
    /\ At_("lookup") # {}
    /\ At_("content.read") # {}
    /\ At_("handle_update") # {}
    /\ At_("cloud.put") # {}

\* the order of the steps of one PUT
Rank(e) ==
    CASE e = "response" -> 1
      [] e = "lookup" -> 2
      [] e = "content.read" -> 3
      [] e = "handle_update" -> 4
      [] e \in {"sensor_added", "sensor_updated"} -> 5
      [] e = "cloud.put" -> 6
      [] e = "log.error" -> 7
      [] OTHER -> 0

\* C12: the steps of one request occur in the order acknowledgement, read
\* of the body, handle_update with its handler callbacks, relay to the
\* cloud; handle_update is called and the relay is made at most once, the
\* relay only after handle_update has returned, and not if it raised.
C12_StepsInOrder ==
    op.name = "request_handler" =>
        /\ \A i, j \in 1..Len(events) : i < j => Rank(events[i].e) <= Rank(events[j].e)
        /\ Cardinality(At_("handle_update")) <= 1
        /\ Cardinality(At_("cloud.put")) <= 1
        /\ Cardinality(At_("content.read")) = Cardinality(At_("handle_update"))
        /\ (At_("cloud.put") # {} => At_("handle_update") # {} /\ err = "ok")
        /\ (err # "ok" => At_("cloud.put") = {})

\* C12 witness: a PUT whose batch was decoded into a registered sensor, with
\* the handler called, and then relayed.
C12_Witness ==
    /\ op.name = "request_handler"
    /\ At_("sensor_updated") # {}
    /\ At_("cloud.put") # {}
    /\ err = "ok"

\* a PUT that the header checks of the proxy turn down
Malformed(request) ==
    /\ request.method = "PUT"
    /\ \/ request.identify = None
       \/ request.identify # None /\ Len(request.identify[1]) # 3
       \/ request.content_length = None
       \/ request.content_type # Some("application/octet-stream")

\* C13: a PUT without HTTP_IDENTIFY, with an HTTP_IDENTIFY of other than
\* three parts, without Content-Length or with a Content-Type other than
\* application/octet-stream gets the acknowledgement and nothing else: the
\* session, its sensors and the call log stay as they were, no packet is
\* sent, no relay made, nothing raised.
C13_MalformedPutIsDropped ==
    [][(op'.name = "request_handler" /\ Malformed(op'.args[1])) =>
         /\ Len(events') = 1
         /\ events'[1].e = "response"
         /\ gw' = gw
         /\ calls' = calls
         /\ sent' = <<>>
         /\ px' = px
         /\ err' = "ok"]_vars

\* C13 witness: a PUT with a Content-Type other than application/octet-stream
\* was handled while its gateway was registered with a handler and the
\* sensor of its batch was registered.
C13_Witness ==
    /\ op.name = "request_handler"
    /\ Malformed(op.args[1])
    /\ op.args[1].content_type = Some("text/plain")
    /\ gateway_id(gw) \in px.gateways
    /\ gw.handler # "None"
    /\ Registered(gw, Hex(SensorIdB))

\* C14: a well-formed PUT naming a gateway id that is not in the registry is
\* dropped: the handler raises nothing, makes no handler callback and no
\* relay.
C14_UnregisteredGatewayIsDropped ==
    (/\ op.name = "request_handler"
     /\ op.args[1].method = "PUT"
     /\ ~Malformed(op.args[1])
     /\ op.args[1].identify[1][2] \notin px.gateways)
    => /\ err = "ok"
       /\ At_("cloud.put") = {}
       /\ At_("sensor_added") \cup At_("sensor_updated") = {}

\* C15: stop detaches every session of the registry, emptying it, before it
\* closes the listener.
C15_StopDetachesBeforeClose ==
    [][(op'.name = "stop" /\ px.site = "started") =>
         /\ px'.gateways = {}
         /\ \A id \in px.gateways :
               \E i, j \in 1..Len(events') :
                  /\ i < j
                  /\ events'[i] = [e |-> "detach", x |-> id]
                  /\ events'[j].e = "site.stop"]_vars

---------------------------------------------------------------------------
(* Properties of the handler callbacks and the sensor registry.            *)

\* C16: every sensor_updated call for a sensor id comes after a
\* sensor_added call for that id.
C16_AddedBeforeUpdated ==
    \A i \in 1..Len(calls) :
        calls[i].fn = "sensor_updated" =>
            \E j \in 1..(i - 1) : calls[j] = [fn |-> "sensor_added", id |-> calls[i].id]

\* the step handles a sub-frame with a right checksum, for a sensor in the
\* registry, that passes the sensor's duplicate filter
HandledFresh ==
    /\ HandledGood
    /\ Registered(gw, IdOf(op'.args[1]))
    /\ _parse_packet_header(gw.sensors[IdOf(op'.args[1])], op'.args[1]).result

C18_SensorsCreatedNeverEvicted ==
    [][/\ (HandledGood /\ ~Registered(gw, IdOf(op'.args[1])))
            => Registered(gw', IdOf(op'.args[1]))
       /\ DOMAIN gw.sensors \subseteq DOMAIN gw'.sensors]_vars

---------------------------------------------------------------------------
(* Properties of finding and discovering gateways.                         *)

\* the attempts of the last get_config that did not time out
Answered == {k \in 1..Len(op.args[1]) : op.args[1][k].kind # "timeout"}

\* the first of them
FirstAnswered == CHOOSE k \in Answered : \A j \in Answered : k <= j

\* attempt k is made: k - 1 attempts timed out before it, each after a
\* reading of the clock, and the deadline has not elapsed by the next reading
InTime(k) == 1 + (AttemptTimeout + 1) * (k - 1) <= op.args[2]

\* C19: get_config returns the first reply received; when every attempt
\* made before the overall deadline elapsed timed out it returns None
\* and raises nothing; whenever it returns, is_online tells whether a reply
\* was received.
C19_GetConfigFirstReplyOrOffline ==
    op.name = "get_config" =>
        /\ (Answered = {} \/ ~InTime(FirstAnswered)) =>
               /\ op.ret = None
               /\ err = "ok"
               /\ ~gw.is_online
        /\ (Answered # {} /\ InTime(FirstAnswered)
              /\ op.args[1][FirstAnswered].kind = "reply") =>
               /\ op.ret = Some(op.args[1][FirstAnswered].config)
               /\ err = "ok"
               /\ gw.is_online
        /\ err = "ok" => gw.is_online = (op.ret # None)

\* C19 witness: a session that had received a reply before (last_seen is
\* set) got none in a get_config whose deadline elapsed after an attempt
\* that timed out: it returned None without raising and is offline.
C19_Witness ==
    /\ op.name = "get_config"
    /\ Len(op.args[1]) > 0
    /\ op.args[1][1].kind = "timeout"
    /\ op.ret = None
    /\ err = "ok"
    /\ gw.last_seen # None
    /\ ~gw.is_online

\* the datagrams the last discover received, in order
Recv == [i \in 1..Len(events) |-> events[i].x]

\* the valid config replies among them
ValidRecv == {i \in 2..Len(events) : check_config(Some(Recv[i]))}

\* the first valid reply received from the gateway with this id
FirstReply(id) ==
    Recv[CHOOSE i \in ValidRecv :
            /\ Slice(Recv[i], 2, 8) = id
            /\ \A j \in ValidRecv : Slice(Recv[j], 2, 8) = id => i <= j]

\* C20: discover returns one session per distinct gateway id among the valid
\* config replies it received, however many replies a gateway sent, and
\* each session is the initialized session that parsing the gateway's
\* first reply yields (last_seen apart, the time of the parse); the set of session ids is therefore a function of
\* the set of gateways that replied.
C20_DiscoverOneSessionPerGateway ==
    op.name = "discover" =>
        /\ \A i, j \in 1..Len(op.ret) : op.ret[i].id = op.ret[j].id => i = j
        /\ {op.ret[i].id : i \in 1..Len(op.ret)}
               = {Slice(Recv[i], 2, 8) : i \in ValidRecv}
        /\ \A i \in 1..Len(op.ret) :
               /\ op.ret[i].initialized
               /\ op.ret[i].last_seen # None
               /\ [op.ret[i] EXCEPT !.last_seen = None]
                      = [parse_config([World EXCEPT !.gw = Gateway(op.ret[i].id)],
                                      Some(FirstReply(op.ret[i].id))).gw
                            EXCEPT !.last_seen = None]
        /\ err = "ok"

\* C20 witness: discover received three valid replies, two of them from the
\* same gateway, and returned two sessions.
C20_Witness ==
    /\ op.name = "discover"
    /\ Cardinality(ValidRecv) = 3
    /\ Len(op.ret) = 2
    /\ op.ret[1].initialized /\ op.ret[2].initialized

---------------------------------------------------------------------------
(* Properties of ping and of the cloud relay.                              *)

\* the proxy fields a config record reports (use-proxy flag, proxy host,
\* proxy port) are the session's proxy endpoint
ReportsEndpoint(config, g) ==
    /\ (At(config, 114) # 0) = (g.use_proxy[1] # 0)
    /\ PySlice(config, 115, Find(config, 0, 115, 180)) = StrBytes(g.proxy[1])
    /\ FromBytes(Slice(config, 180, 182)) = g.proxy_port[1]

\* C21: a ping of an initialized session that obtains a valid config, with
\* reattach requested, sends SET_CONFIG if and only if the session is
\* attached and the proxy fields the device reports differ from the
\* session's proxy endpoint.
C21_PingReattachesOnlyOnMismatch ==
    [][(op'.name = "ping" /\ op'.ret /\ op'.args[2] /\ gw.initialized) =>
          ((sent' # <<>>) <=> (gw.attached /\ ~ReportsEndpoint(op'.args[1][1], gw)))]_vars

\* the step handles a well-formed PUT of a registered gateway, and
\* handle_update returns
HandledPut ==
    /\ op'.name = "request_handler"
    /\ op'.args[1].method = "PUT"
    /\ ~Malformed(op'.args[1])
    /\ op'.args[1].identify[1][2] \in px.gateways
    /\ err' = "ok"

\* the relays attempted by the step
CloudPuts == {i \in 1..Len(events') : events'[i].e = "cloud.put"}

\* C22: with send_data_to_cloud false no request makes an outbound PUT; with
\* it true every handled ingress PUT makes exactly one, with the URL, the
\* three headers and the body of the ingress PUT.
C22_RelayFollowsFlag ==
    [][op'.name = "request_handler" =>
         /\ ~gw.send_data_to_cloud => CloudPuts = {}
         /\ (HandledPut /\ gw.send_data_to_cloud) =>
               /\ Cardinality(CloudPuts) = 1
               /\ \A i \in CloudPuts :
                     /\ events'[i].x.url = op'.args[1].url
                     /\ events'[i].x.headers.content_type = op'.args[1].content_type
                     /\ events'[i].x.headers.content_length = op'.args[1].content_length
                     /\ events'[i].x.headers.identify = op'.args[1].identify
                     /\ events'[i].x.data = op'.args[1].body]_vars

\* C22 witness: with send_data_to_cloud false a batch was handled (the
\* sensor updated, the handler called) and nothing was relayed.
C22_Witness ==
    /\ op.name = "request_handler"
    /\ ~gw.send_data_to_cloud
    /\ At_("sensor_updated") # {}
    /\ At_("cloud.put") = {}
    /\ err = "ok"

\* C23: when the relay fails, the request ends as it does when the relay
\* succeeds: the handler raises nothing the relay caused, one acknowledgement
\* was written, and the session, its sensors, the call log, the registry
\* and the packets sent are those of the same request with a relay that
\* succeeds; the failure is logged.
C23_RelayFailureIsContained ==
    [][(op'.name = "request_handler" /\ op'.args[2] # "ok") =>
         LET r == request_handler(World, op'.args[1])
         IN  /\ gw' = r.gw
             /\ calls' = r.calls
             /\ sent' = r.sent
             /\ px' = r.px
             /\ err' = r.err
             /\ now' = r.now
             /\ events'[1].e = "response"
             /\ \/ events' = r.events /\ r.events[Len(r.events)].e # "cloud.put"
                \/ /\ events' = Append(r.events, [e |-> "log.error", x |-> op'.args[2]])
                   /\ r.events[Len(r.events)].e = "cloud.put"
                   /\ err' = "ok"]_vars

\* C23 witness: a batch was handled, the relay was attempted and failed, the
\* failure was logged and the handler raised nothing.
C23_Witness ==
    /\ op.name = "request_handler"
    /\ op.args[2] = "ClientError"
    /\ At_("sensor_updated") # {}
    /\ At_("cloud.put") # {}
    /\ At_("log.error") # {}
    /\ events[1].e = "response"
    /\ err = "ok"

---------------------------------------------------------------------------
(* Properties of the proxy registry.                                       *)

\* the session object handed to the last attach_gateway or detach_gateway
Handed == IF op'.args = <<>> THEN "gw" ELSE op'.args[1]

\* C24: the registry holds one session object under each registered id;
\* attach_gateway with a session whose id is registered leaves the registry
\* (the object held included), both sessions and the device as they are and
\* sends nothing; detach_gateway with a session whose id is not registered
\* does the same.
C24_RegistryHoldsOnePerId ==
    [][/\ DOMAIN px'.objects = px'.gateways
       /\ (\/ op'.name = "attach_gateway" /\ gateway_id(gw) \in px.gateways
           \/ op'.name = "detach_gateway" /\ gateway_id(gw) \notin px.gateways) =>
             /\ px' = px
             /\ gw' = gw
             /\ sent' = <<>>
             /\ device' = device
             /\ err' = "ok"
             /\ Handed = "other" => op'.ret = Some(OtherSession)]_vars

\* C24 witness: attach_gateway was called with a second session object of an
\* id whose registered session is attached: the registry still holds the
\* first object and nothing was sent.
C24_Witness ==
    /\ op.name = "attach_gateway"
    /\ op.args = <<"other">>
    /\ gateway_id(gw) \in px.gateways
    /\ px.objects[gateway_id(gw)] = "gw"
    /\ gw.attached
    /\ gw.initialized
    /\ sent = <<>>

---------------------------------------------------------------------------
(* Properties of the sensor types.                                         *)

\* C25: after a key-press sensor (type 0x15) accepts a frame, its Key
\* pressed slot holds the upper nibble of octet 14 of the frame and its Key
\* press type slot the lower nibble.
C25_KeyNibbles ==
    (/\ op.name = "parse_packet"
     /\ op.args[1] = Hex(SensorIdKey)
     /\ Registered(gw, op.args[1])
     /\ gw.sensors[op.args[1]].last_update = Some(op.args[2]))
    => /\ gw.sensors[op.args[1]].measurements[1].type = "KEY_PRESSED"
       /\ gw.sensors[op.args[1]].measurements[1].value
             = Val("enum", At(op.args[2], 14) \div 16)
       /\ gw.sensors[op.args[1]].measurements[2].type = "KEY_PRESS_TYPE"
       /\ gw.sensors[op.args[1]].measurements[2].value
             = Val("enum", At(op.args[2], 14) % 16)

\* the sensors of a type that is not in the type table
UnknownSensors(g) == {i \in DOMAIN g.sensors : g.sensors[i].type_id \notin KnownTypes}

\* a sensor without slots and without a last raw payload, whose readable
\* form is the header line
Bare(self) ==
    /\ self.measurements = <<>>
    /\ self.last_update = None
    /\ Len(__str__(self)) = 1
    /\ __str__(self)[1].id = self.id

\* C26: a sensor of a type that is not in the type table has no slots and no
\* last raw payload when created and after every frame, and its readable
\* form is the header line alone; a frame sets its timestamp, its battery
\* and by-event flags and its counter, and nothing else.
C26_UnknownTypeHeaderOnly ==
    /\ \A i \in UnknownSensors(gw) : Bare(gw.sensors[i])
    /\ [][(op'.name = "parse_packet" /\ op'.args[1] \in UnknownSensors(gw)) =>
            LET self == gw'.sensors[op'.args[1]]
                raw == FromBytes(Slice(op'.args[2], 12, 14))
            IN  /\ Bare(self)
                /\ self.timestamp = FromBytes(Slice(op'.args[2], 1, 5))
                /\ self.low_battery = Bit(raw, 15)
                /\ self.by_event = Bit(raw, 14)
                /\ self.counter = raw % 16384
                /\ self.type_id = gw.sensors[op'.args[1]].type_id
                /\ self.id = op'.args[1]]_vars

\* C26 witness: a sensor of type 0x75 took a second frame, with the
\* low-battery flag: its header is decoded and it is still bare.
C26_Witness ==
    /\ op.name = "parse_packet"
    /\ op.args[1] = Hex(SensorIdUnknown)
    /\ Registered(gw, op.args[1])
    /\ gw.sensors[op.args[1]].counter = 2
    /\ gw.sensors[op.args[1]].low_battery
    /\ gw.sensors[op.args[1]].timestamp = 2
    /\ Bare(gw.sensors[op.args[1]])

---------------------------------------------------------------------------
(* Properties of the preserved-proxy encoding in SET_CONFIG packets.       *)

\* the field of a SET_CONFIG packet that starts at octet lo and holds a
\* string of len octets carries the marker pair after the string's NUL
Marked(packet, lo, len) ==
    /\ len + 3 <= 65
    /\ At(packet, lo + len + 1) = ORIG_PROXY_BYTE1
    /\ At(packet, lo + len + 2) = ORIG_PROXY_BYTE2

\* C27: in every SET_CONFIG packet sent, the server field and the proxy
\* field carry the marker pair only if at least one octet of the field's
\* tail is left for the preserved tuple after the NUL and the markers.
C27_MarkersOnlyWithData ==
    \A i \in 1..Len(sent) :
        /\ Marked(sent[i], 44, Len(StrBytes(gw.server[1])))
              => 65 - Len(StrBytes(gw.server[1])) > 3
        /\ Marked(sent[i], 110, Len(StrBytes(gw.proxy[1])))
              => 65 - Len(StrBytes(gw.proxy[1])) > 3

\* C28 (the writer's half): a SET_CONFIG packet of a session that holds a
\* preserved triple carries, in the tail of its name field (octets 23..43),
\* a NUL, the marker pair and the first octets of the preserved tuple, as
\* many as fit.
C28_TupleStartsInNameTail ==
    \A i \in 1..Len(sent) :
        (gw.orig_use_proxy # None /\ 21 - Len(StrBytes(gw.name[1])) > 3) =>
            LET len == Len(StrBytes(gw.name[1]))
                part == Min(Len(OrigData(gw)), 21 - len - 3)
            IN  /\ At(sent[i], 23 + len + 1) = ORIG_PROXY_BYTE1
                /\ At(sent[i], 23 + len + 2) = ORIG_PROXY_BYTE2
                /\ Slice(sent[i], 23 + len + 3, 23 + len + 3 + part)
                      = Slice(OrigData(gw), 0, part)

---------------------------------------------------------------------------
(* Properties of a batch of sensor records.                                *)

\* the 63-octet sub-frame of record k (from 0) of a batch
RecordFrame(packages, k) == Slice(packages, 64 * k, 64 * k + 63)

\* the indices of the complete records of a batch
Complete(packages) == 0..(Len(packages) \div 64 - 1)

\* record k of the batch is complete, has the right checksum octet, is the
\* only record of the batch for its sensor id, and that sensor is in the
\* registry and would take the frame (its duplicate filter passes)
Due(packages, k) ==
    LET frame == RecordFrame(packages, k)
    IN  /\ Sum(frame) % 128 = At(packages, 64 * k + 63)
        /\ \A j \in Complete(packages) \ {k} : IdOf(RecordFrame(packages, j)) # IdOf(frame)
        /\ Registered(gw, IdOf(frame))
        /\ _parse_packet_header(gw.sensors[IdOf(frame)], frame).result

\* C29: handle_sensors_update processes every complete record of a batch:
\* after a sensor batch is handled, each record that has the right checksum
\* and is the batch's one record for a registered sensor has been taken by
\* that sensor (the sensor carries the frame as its last update), whatever
\* the records before it were.
C29_EachRecordProcessed ==
    [][(op'.name = "handle_update" /\ op'.args[1] = "C0") =>
         \A k \in Complete(op'.args[2]) :
             Due(op'.args[2], k) =>
                 gw'.sensors[IdOf(RecordFrame(op'.args[2], k))].last_update
                     = Some(RecordFrame(op'.args[2], k))]_vars

---------------------------------------------------------------------------
(* Properties of the end of discover.                                      *)

\* C30: discover returns no later than the first reply handled after the
\* overall timeout has elapsed: a datagram that arrived more than timeout
\* seconds after the start is the last one the call receives, whether its
\* gateway id was already seen or not.
C30_DiscoverStopsAfterTimeout ==
    op.name = "discover" =>
        \A i \in 1..(Len(events) - 1) :
            events[i].e = "recv" => events[i].t <= op.args[3]

---------------------------------------------------------------------------
(* sensor.py: the decoders applied once to each raw value.                 *)

Octets == 0..255

\* the 2-octet fields decoded: every value of bits 0..11, and every value
\* of the upper octet with some lower octets
Fields2 ==
    {<<hi, lo>> : hi \in 0..15, lo \in Octets}
    \cup {<<hi, lo>> : hi \in 16..255, lo \in {0, 1, 128, 255}}

\* the shared high-bit octets tried with a wind speed: every combination of
\* the two mask bits, with the other six bits clear or set
HighBitOctets == (0..3) \cup (252..255)

\* the application of a decoder to its arguments, made once per behaviour
Apply(name, args, ret) == Do(Tick(World), name, args, ret)

\* _parse_temperature(value, attr)
ParseTemperature(value, attr) ==
    Apply("_parse_temperature", <<value, attr>>, _parse_temperature(value, attr))

\* _parse_wind_speed(value, hibit, himask), as _add_wind_speed calls it from
\* parse_packet: value and hibit are octets of the frame, himask 0x02 for
\* the speed and 0x01 for the gust
ParseWindSpeed(value, hibit, himask) ==
    Apply("_parse_wind_speed", <<value, hibit, himask>>,
          _parse_wind_speed(value, hibit, himask))

\* _parse_wind_direction(value), as _add_wind_direction calls it from
\* parse_packet: value is an octet of the frame
ParseWindDirection(value) ==
    Apply("_parse_wind_direction", <<value>>, _parse_wind_direction(value))

NextDecode ==
    /\ now = 1
    /\ \/ \E value \in Fields2, attr \in BOOLEAN : ParseTemperature(value, attr)
       \/ \E value \in Octets, hibit \in HighBitOctets, himask \in {1, 2} :
            ParseWindSpeed(value, hibit, himask)
       \/ \E value \in Octets : ParseWindDirection(value)

SpecDecode == Init /\ [][NextDecode]_vars

---------------------------------------------------------------------------
(* Properties of the decoders.                                             *)

\* the tenths of a degree that the 11-bit field raw encodes: the integer t
\* of [-1024, 1023] with t mod 2048 = raw
Tenths(raw) == IF raw >= 1024 THEN raw - 2048 ELSE raw

\* C31: for every 16-bit raw value, with the check enabled bit 12 set yields
\* Error, otherwise bit 13 set yields Overflow; otherwise, and always with
\* the check disabled, the result is (raw & 0x3FF) minus 1024 if bit 10 is
\* set, in tenths of a degree; so the encoding of every t of [-1024, 1023]
\* (a raw value below 2048) decodes to t.
C31_TemperatureDecode ==
    op.name = "_parse_temperature" =>
        LET raw == op.args[1][1] * 256 + op.args[1][2]
            attr == op.args[2]
            b(k) == (raw \div 2 ^ k) % 2 = 1
        IN  /\ (attr /\ b(12)) => op.ret = ERROR
            /\ (attr /\ ~b(12) /\ b(13)) => op.ret = OVERFLOW
            /\ (~attr \/ (~b(12) /\ ~b(13))) =>
                   /\ op.ret.k = "num"
                   /\ op.ret.v = (raw % 1024) - (IF b(10) THEN 1024 ELSE 0)
                   /\ op.ret.v \in -1024..1023
            /\ raw < 2048 => op.ret = Val("num", Tenths(raw))

\* C31 witness: the encoding of -5 tenths decoded with the check enabled.
C31_Witness ==
    /\ op.name = "_parse_temperature"
    /\ op.args = <<(<<7, 251>>), TRUE>>
    /\ op.ret = Val("num", -5)

\* the 2-octet fields of a range of octets, as integers, in order
SpanFields(range) ==
    [k \in 1..(Len(range) \div 2) |-> range[2 * k - 1] * 256 + range[2 * k]]

\* a time span in seconds: bits above the count select the unit (1 hours,
\* 2 minutes, otherwise seconds); the count has 14 bits for the rain sensor
\* and 13 for the door/window sensor
Span(field, bits) ==
    LET unit == (field \div 2 ^ bits) % 4
    IN  (field % 2 ^ bits) * (IF unit = 1 THEN 3600 ELSE IF unit = 2 THEN 60 ELSE 1)

\* the spans of the fields that follow the first, up to but excluding the
\* first zero-valued one
PriorSpans(fields, bits) ==
    LET zero == {k \in 2..Len(fields) : Span(fields[k], bits) = 0}
        last == IF zero = {} THEN Len(fields)
                ELSE (CHOOSE k \in zero : \A j \in zero : k <= j) - 1
    IN  [k \in 1..(last - 1) |-> Val("num", Span(fields[k + 1], bits))]

\* the time-span slot m holds what the range of octets encodes
HoldsSpans(m, range, bits) ==
    /\ m.value = Val("num", Span(SpanFields(range)[1], bits))
    /\ m.prior = IF PriorSpans(SpanFields(range), bits) = <<>> THEN NoVal
                 ELSE ListVal(PriorSpans(SpanFields(range), bits))

MaskBit(hibit, himask) == (hibit \div himask) % 2 = 1

\* C33: the wind speed and the gust, in tenths of m/s, are the magnitude
\* octet plus 0x100 when the shared high-bit octet has the slot's mask bit
\* set, and the magnitude octet when it is clear.
C33_WindSpeedDecode ==
    op.name = "_parse_wind_speed" =>
        op.ret = Val("num", op.args[1]
                              + (IF MaskBit(op.args[2], op.args[3]) THEN 256 ELSE 0))

\* C34: the wind direction is the upper 4 bits of the direction octet.
C34_WindDirectionDecode ==
    op.name = "_parse_wind_direction" =>
        op.ret = Val("enum", op.args[1] \div 16)

\* the values the decoder of a slot's declared classification can produce
\* (the classifications of the types 0x09 and 0x0E)
Decodable(type) ==
    CASE type = "TEMPERATURE" -> {Val("num", v) : v \in -1024..1023} \cup {ERROR, OVERFLOW}
      [] type = "HUMIDITY" -> {Val("num", v) : v \in 0..511}
      [] OTHER -> {}

\* C35: after an accepted frame the slots of a sensor of type 0x09 hold, in
\* the declared order, the temperature of octets 14..15, the humidity of
\* octet 19 and the external temperature of octets 16..17, and the Humidity
\* slot of a sensor of type 0x0E holds the humidity of octets 16..17; every
\* slot of the two types holds a value its declared classification's
\* decoder can produce.
C35_SlotsHoldDeclaredKind ==
    \A i \in DOMAIN gw.sensors :
        LET sensor == gw.sensors[i]
            ms == sensor.measurements
            p == sensor.last_update[1]
        IN  (sensor.last_update # None /\ sensor.type_id \in {9, 14}) =>
               /\ \A k \in 1..Len(ms) : ms[k].value \in Decodable(ms[k].type)
               /\ sensor.type_id = 9 =>
                    /\ ms[1].type = "TEMPERATURE"
                    /\ ms[1].value = _parse_temperature(Slice(p, 14, 16), TRUE)
                    /\ ms[2].type = "HUMIDITY"
                    /\ ms[2].value = _parse_humidity(At(p, 19), FALSE)
                    /\ ms[3].type = "TEMPERATURE"
                    /\ ms[3].value = _parse_temperature(Slice(p, 16, 18), TRUE)
               /\ sensor.type_id = 14 =>
                    /\ ms[2].type = "HUMIDITY"
                    /\ ms[2].value = _parse_humidity_hr(Slice(p, 16, 18))

---------------------------------------------------------------------------
(* Two uploads handled concurrently by one session: handle_sensor_update   *)
(* suspends in create_sensor, at the await of get_sensor_name, and the     *)
(* other upload may run meanwhile.                                         *)

Tasks == {1, 2}

\* an upload not yet received
Idle == [pc |-> "idle", package |-> <<>>, found |-> FALSE]

InitRace ==
    /\ gw = Gateway(GatewayId)
    /\ calls = <<>>
    /\ sent = <<>>
    /\ device = ConfigOf(15, 0, 11)
    /\ now = 1
    /\ err = "ok"
    /\ att = None
    /\ px = Proxy("None")
    /\ events = <<>>
    /\ op = [name |-> "Gateway", args |-> <<GatewayId>>, ret |-> None]
    /\ tasks = [t \in Tasks |-> Idle]

\* handle_sensor_update from the checksum test to sensor_updated, with the
\* sensor that get_sensor returned in the registry of world g
Finish(g, package) ==
    LET sensor_id == Hex(Slice(package, 6, 12))
        p == [g EXCEPT !.gw.sensors[sensor_id] = parse_packet(@, package)]
    IN  IF p.gw.handler # "None" THEN Call(p, "sensor_updated", sensor_id) ELSE p

\* task t starts handle_sensor_update(package, checksum) with the right
\* checksum: it runs to the end when get_sensor finds the sensor in the
\* registry, and otherwise up to the await of get_sensor_name
Accept(t, package) ==
    LET w == [Tick(World) EXCEPT !.gw.last_seen = Some(now)]
        sensor_id == Hex(Slice(package, 6, 12))
        found == Registered(gw, sensor_id)
    IN  /\ tasks[t].pc = "idle"
        /\ After(IF found THEN Finish(w, package) ELSE w,
                 "handle_sensor_update", <<t, package>>, None)
        /\ tasks' = [tasks EXCEPT ![t] = [pc |-> IF found THEN "done" ELSE "get_sensor_name",
                                          package |-> package, found |-> found]]

\* get_sensor_name returns to task t: create_sensor constructs the sensor
\* and adds it to the registry, get_sensor calls sensor_added, and
\* handle_sensor_update goes on to the end; an exception ends the task
Resume(t) ==
    LET package == tasks[t].package
        sensor_id == Hex(Slice(package, 6, 12))
        c == create_sensor(World, sensor_id)
        g == IF c.err # "ok" THEN c
             ELSE IF c.gw.handler # "None" THEN Call(c, "sensor_added", sensor_id)
             ELSE c
    IN  /\ tasks[t].pc = "get_sensor_name"
        /\ After(IF g.err # "ok" THEN g ELSE Finish(g, package),
                 "get_sensor_name", <<t>>, None)
        /\ tasks' = [tasks EXCEPT ![t].pc = IF g.err # "ok" THEN "raised" ELSE "done"]

NextRace ==
    \/ \E h \in Handlers : SetHandler(h)
    \/ \E i \in SensorIds : AddSensor(i)
    \/ \E t \in Tasks, f \in Frames : Accept(t, f)
    \/ \E t \in Tasks : Resume(t)

SpecRace == InitRace /\ [][NextRace]_vars

\* both uploads are over, they were for the same sensor id, and each of
\* them found the id absent from the registry when it looked it up
BothCreated ==
    /\ \A t \in Tasks : tasks[t].pc \in {"done", "raised"}
    /\ IdOf(tasks[1].package) = IdOf(tasks[2].package)
    /\ \A t \in Tasks : ~tasks[t].found

\* C36: two uploads for the same unseen sensor id, handled concurrently,
\* leave one sensor registered for the id, announced by sensor_added at
\* most once, and neither upload ends in an exception.
C36_OneSensorPerConcurrentId ==
    (DOMAIN tasks = Tasks /\ BothCreated) =>
        /\ \A t \in Tasks : tasks[t].pc = "done"
        /\ Registered(gw, IdOf(tasks[1].package))
        /\ Count(calls, "sensor_added", IdOf(tasks[1].package)) <= 1

---------------------------------------------------------------------------
(* Properties of attaching through the proxy.                              *)

\* C37: an attach_gateway of the started proxy that fails because the
\* session is not initialized leaves the session not attached, without a
\* captured triple, with its proxy fields and its handler as they were, and
\* leaves the gateway out of the proxy's registry.
C37_FailedAttachIsAtomic ==
    [][(/\ op'.name = "attach_gateway" /\ op'.args = <<>>
        /\ px.site = "started" /\ ~gw.initialized
        /\ gateway_id(gw) \notin px.gateways
        /\ err' # "ok") =>
          /\ ~gw'.attached
          /\ gw'.orig_use_proxy = None
          /\ gw'.use_proxy = gw.use_proxy
          /\ gw'.proxy = gw.proxy
          /\ gw'.proxy_port = gw.proxy_port
          /\ gw'.handler = gw.handler
          /\ gateway_id(gw) \notin px'.gateways]_vars

---------------------------------------------------------------------------
(* The proxy restarted on another address while a session is attached.     *)

\* await proxy.restart(host, port)
Restart(host, port) ==
    /\ now <= MaxTime
    /\ Do(Tick(restart(World, host, port)), "restart", <<host, port>>, None)

NextRestart ==
    \/ Start
    \/ UpdateConfig(Some(device))
    \/ AttachGateway
    \/ DetachGateway
    \/ \E e \in Endpoints : Restart(e[1], e[2])

SpecRestart == InitProxy /\ [][NextRestart]_vars

\* every session in the proxy's registry is attached, uses a proxy, and has
\* the address the proxy listens on as its proxy host and port
RegistryAgrees ==
    gateway_id(gw) \in px.gateways =>
        /\ gw.attached
        /\ gw.use_proxy = Some(1)
        /\ StrBytes(gw.proxy[1]) = px.host[1]
        /\ gw.proxy_port = px.port

\* C38: start, attach_gateway, restart and detach_gateway, when they return
\* normally, keep every initialized session of the proxy's registry
\* attached to the address on which the proxy is listening.
C38_RegistryFollowsListener ==
    [][(op'.name \in {"start", "attach_gateway", "restart", "detach_gateway"}
        /\ err' = "ok" /\ gw.initialized /\ RegistryAgrees) => RegistryAgrees']_vars

---------------------------------------------------------------------------
(* Properties of the session's address.                                    *)

\* C39: when the request handler passes an upload to handle_update for a
\* session that uses DHCP and knows its gateway's address, the session still
\* holds an IPv4 address as dhcp_ip afterwards.
C39_UploadKeepsDhcpAddress ==
    [][(/\ op'.name = "request_handler"
        /\ \E i \in 1..Len(events') : events'[i].e = "handle_update"
        /\ gw.use_dhcp # None /\ gw.use_dhcp[1] # 0
        /\ gw.dhcp_ip # None) =>
          /\ gw'.dhcp_ip # None
          /\ gw'.dhcp_ip[1].t = "IPv4Address"]_vars

---------------------------------------------------------------------------
(* Properties of the duplicate filter.                                     *)

\* the counter a frame carries for a sensor of this type: octets 12..13
\* without the two flag bits, octets 12..14 for the types 0x0B and 0x18
MaskedCounter(type_id, packet) ==
    IF type_id \in {11, 24}
    THEN (packet[13] * 65536 + packet[14] * 256 + packet[15]) % 4194304
    ELSE (packet[13] * 256 + packet[14]) % 16384

\* C40: a frame is accepted exactly when its masked counter differs from
\* the counter the sensor holds, which is always the case for a fresh
\* sensor and also for a lower counter; the flag bits play no part; an
\* accepted frame of a known type becomes the sensor's last update, a
\* rejected frame changes neither the last update nor the slots; after the
\* frame the sensor holds the frame's masked counter.
C40_CounterChangeDecidesAcceptance ==
    [][op'.name = "parse_packet" =>
         LET id == op'.args[1]
             packet == op'.args[2]
             old == gw.sensors[id]
             new == gw'.sensors[id]
             counter == MaskedCounter(old.type_id, packet)
         IN  /\ new.counter = counter
             /\ (old.counter # counter /\ old.type_id \in KnownTypes) =>
                    new.last_update = Some(packet)
             /\ old.counter = counter =>
                    /\ new.last_update = old.last_update
                    /\ new.measurements = old.measurements
             /\ old.counter = -1 => old.counter # counter]_vars

\* C40 witness: a frame that carries the counter of the frame last accepted
\* and other flag bits has been rejected.
C40_Witness ==
    /\ op.name = "parse_packet"
    /\ gw.sensors[op.args[1]].last_update # None
    /\ gw.sensors[op.args[1]].last_update # Some(op.args[2])
    /\ gw.sensors[op.args[1]].counter
         = MaskedCounter(gw.sensors[op.args[1]].type_id, op.args[2])
    /\ gw.sensors[op.args[1]].counter
         = MaskedCounter(gw.sensors[op.args[1]].type_id,
                         gw.sensors[op.args[1]].last_update[1])
    /\ op.args[2][13] # gw.sensors[op.args[1]].last_update[1][13]

===========================================================================
